---- MODULE Spec2Model ----
(***************************************************************************)
(* A model of the jq-ts interpreter: the value model, the path functions,  *)
(* the validator, the resource tracker and the generator-based evaluator.  *)
(*                                                                         *)
(* Values are records [t, v]: t is the JSON type tag, v the payload.       *)
(* Objects keep their keys in insertion order (a sequence of <<key,value>> *)
(* pairs), as a JavaScript object does for non-numeric keys.               *)
(***************************************************************************)
EXTENDS Integers, Sequences, FiniteSets, TLC

(***************************************************************************)
(* Values (value.ts)                                                       *)
(***************************************************************************)
VNull == [t |-> "null", v |-> 0]
VBool(b) == [t |-> "boolean", v |-> b]
VNum(n) == [t |-> "number", v |-> n]
VStr(s) == [t |-> "string", v |-> s]
VArr(s) == [t |-> "array", v |-> s]
VObj(s) == [t |-> "object", v |-> s]
\* JavaScript's undefined: what getPath returns for a missing location.
Undefined == [t |-> "undefined", v |-> 0]

\* The number NaN (typeof "number"): what Math.sqrt gives for a negative.
NaN == [t |-> "number", v |-> 0, nan |-> TRUE]

isNaN(x) == x.t = "number" /\ "nan" \in DOMAIN x

\* Infinity and -Infinity: s is the sign, 1 or -1
Inf(s) == [t |-> "number", v |-> s, inf |-> TRUE]

\* A double near the largest one, such as 1e308, and its negative: adding a
\* small number leaves it as it is, the sum of two of them is Infinity
Huge(s) == [t |-> "number", v |-> s, huge |-> TRUE]

\* Where a number other than NaN lies: below, among or above the small
\* integers that VNum holds
NumClass(x) ==
  IF "inf" \in DOMAIN x THEN 2 * x.v
  ELSE IF "huge" \in DOMAIN x THEN x.v
  ELSE 0

\* JavaScript's a < b and a <= b on numbers: false when either is NaN
NumLess(a, b) ==
  /\ ~isNaN(a)
  /\ ~isNaN(b)
  /\ \/ NumClass(a) < NumClass(b)
     \/ NumClass(a) = 0 /\ NumClass(b) = 0 /\ a.v < b.v

NumLessEq(a, b) == ~isNaN(a) /\ ~isNaN(b) /\ (a = b \/ NumLess(a, b))

\* -x
NumNeg(x) == IF isNaN(x) THEN NaN ELSE [x EXCEPT !.v = -x.v]

\* JavaScript's a + b on numbers
NumAdd(a, b) ==
  IF isNaN(a) \/ isNaN(b) THEN NaN
  ELSE LET ca == NumClass(a)
           cb == NumClass(b)
       IN IF ca = 0 /\ cb = 0 THEN VNum(a.v + b.v)
          ELSE IF ca = -cb THEN (IF ca \in {2, -2} THEN NaN ELSE VNum(0))
          ELSE IF ca = cb THEN (IF ca > 0 THEN Inf(1) ELSE Inf(-1))
          ELSE IF ca \in {2, -2} THEN a
          ELSE IF cb \in {2, -2} THEN b
          ELSE IF ca = 0 THEN b
          ELSE a

\* JavaScript's a - b on numbers
NumSub(a, b) == NumAdd(a, NumNeg(b))

\* a === b for null, booleans, numbers and strings: NaN is not === NaN
StrictEq(a, b) ==
  /\ a.t \in {"null", "boolean", "number", "string"}
  /\ a = b
  /\ ~isNaN(a)

\* JavaScript's typeof
typeof(x) == IF x.t \in {"null", "array", "object"} THEN "object" ELSE x.t

\* The strings of the model in code-unit order (JavaScript's "<" on strings).
StrOrder ==
  << "Cannot index array with string",
     "Cannot index number with string",
     "Cannot iterate over number",
     "Max depth exceeded",
     "Output limit exceeded",
     "Step limit exceeded",
     "Undefined variable: x",
     "Unknown function: foo",
     "a", "b", "c", "end", "key", "start", "value", "x" >>

StrIdx(s) == CHOOSE i \in 1..Len(StrOrder) : StrOrder[i] = s

StrLess(a, b) == StrIdx(a) < StrIdx(b)

isTruthy(value) == ~(value = VBool(FALSE) \/ value = VNull)

isPlainObject(value) == value.t = "object"

isValueArray(value) == value.t = "array"

describeType(value) == value.t

ObjKeys(o) == [i \in 1..Len(o.v) |-> o.v[i][1]]

ObjHas(o, k) == \E i \in 1..Len(o.v) : o.v[i][1] = k

ObjGet(o, k) == o.v[CHOOSE i \in 1..Len(o.v) : o.v[i][1] = k][2]

\* obj[k] = x: an existing key keeps its place, a new key goes last.
ObjSet(o, k, x) ==
  IF ObjHas(o, k)
  THEN VObj([i \in 1..Len(o.v) |-> IF o.v[i][1] = k THEN <<k, x>> ELSE o.v[i]])
  ELSE VObj(Append(o.v, <<k, x>>))

\* delete obj[k]
ObjDel(o, k) ==
  LET keep(p) == p[1] # k IN VObj(SelectSeq(o.v, keep))

RECURSIVE InsertSorted(_, _)
InsertSorted(s, k) ==
  IF s = << >> THEN <<k>>
  ELSE IF StrLess(k, Head(s)) THEN <<k>> \o s
  ELSE <<Head(s)>> \o InsertSorted(Tail(s), k)

\* A sort that leaves the strings in the order it finds them
Unsorted(s) == s

RECURSIVE SortStrings(_)
\* Array.prototype.sort() on an array of distinct strings
SortStrings(s) ==
  IF s = << >> THEN << >> ELSE InsertSorted(SortStrings(Tail(s)), Head(s))

typeRank(value) ==
  CASE value = VNull -> 0
    [] value = VBool(FALSE) -> 1
    [] value = VBool(TRUE) -> 2
    [] value.t = "number" -> 3
    [] value.t = "string" -> 4
    [] value.t = "array" -> 5
    [] OTHER -> 6

RECURSIVE valueEquals(_, _)
valueEquals(a, b) ==
  IF a.t # b.t THEN FALSE
  ELSE IF a.t \in {"null", "boolean", "number", "string", "undefined"} THEN a = b
  ELSE IF a.t = "array"
    THEN /\ Len(a.v) = Len(b.v)
         /\ \A i \in 1..Len(a.v) : valueEquals(a.v[i], b.v[i])
  ELSE LET aKeys == SortStrings(ObjKeys(a))
           bKeys == SortStrings(ObjKeys(b))
       IN /\ Len(aKeys) = Len(bKeys)
          /\ \A i \in 1..Len(aKeys) :
               /\ aKeys[i] = bKeys[i]
               /\ valueEquals(ObjGet(a, aKeys[i]), ObjGet(b, aKeys[i]))

compareStrings(a, b) == IF a = b THEN 0 ELSE IF StrLess(a, b) THEN -1 ELSE 1

RECURSIVE compareValues(_, _)
RECURSIVE compareArrays(_, _, _)
RECURSIVE compareObjects(_, _, _, _, _)
compareArrays(a, b, i) ==
  IF i > Len(a) \/ i > Len(b) THEN (IF Len(a) < Len(b) THEN -1 ELSE 1)
  ELSE LET cmp == compareValues(a[i], b[i])
       IN IF cmp # 0 THEN cmp ELSE compareArrays(a, b, i + 1)

compareObjects(a, b, aKeys, bKeys, i) ==
  IF i > Len(aKeys) \/ i > Len(bKeys)
  THEN (IF Len(aKeys) < Len(bKeys) THEN -1 ELSE 1)
  ELSE LET keyCmp == compareStrings(aKeys[i], bKeys[i])
       IN IF keyCmp # 0 THEN keyCmp
          ELSE LET valueCmp == compareValues(ObjGet(a, aKeys[i]), ObjGet(b, aKeys[i]))
               IN IF valueCmp # 0 THEN valueCmp
                  ELSE compareObjects(a, b, aKeys, bKeys, i + 1)

compareValues(a, b) ==
  IF valueEquals(a, b) THEN 0
  ELSE LET rankDiff == typeRank(a) - typeRank(b)
       IN IF rankDiff # 0 THEN (IF rankDiff < 0 THEN -1 ELSE 1)
          ELSE IF a.t = "number" THEN (IF NumLess(a, b) THEN -1 ELSE 1)
          ELSE IF a.t = "string" THEN (IF StrLess(a.v, b.v) THEN -1 ELSE 1)
          ELSE IF a.t = "array" THEN compareArrays(a.v, b.v, 1)
          ELSE IF a.t = "object"
            THEN compareObjects(a, b, SortStrings(ObjKeys(a)), SortStrings(ObjKeys(b)), 1)
          ELSE 0

(***************************************************************************)
(* Paths (builtins/paths.ts).  A path is a sequence of segments, each a    *)
(* string value (object key) or a number value (array index).              *)
(***************************************************************************)
Ok(x) == [ok |-> TRUE, v |-> x]
Fail(m) == [ok |-> FALSE, msg |-> m]

RECURSIVE getPath(_, _)
getPath(root, path) ==
  IF path = << >> THEN root
  ELSE IF root = VNull THEN Undefined
  ELSE LET part == Head(path) IN
       IF part.t = "string" /\ isPlainObject(root)
       THEN (IF ~ObjHas(root, part.v) THEN Undefined
             ELSE getPath(ObjGet(root, part.v), Tail(path)))
       ELSE IF part.t = "number" /\ isValueArray(root)
       THEN (IF part.v < 0 \/ part.v >= Len(root.v) THEN Undefined
             ELSE getPath(root.v[part.v + 1], Tail(path)))
       ELSE Undefined

\* `x ?? null`
OrNull(x) == IF x = Undefined THEN VNull ELSE x

Nulls(n) == [i \in 1..n |-> VNull]

\* An array store that leaves the array as it was
ArrKeep(arr, idx, x) == arr

\* arr[idx] = x, after `while (arr.length < idx) arr.push(null)`
ArrSet(arr, idx, x) ==
  IF idx >= Len(arr) THEN arr \o Nulls(idx - Len(arr)) \o <<x>>
  ELSE [arr EXCEPT ![idx + 1] = x]

RECURSIVE updatePath(_, _, _)
\* updatePath(root, path, () => val, span): every caller passes a constant
\* update function.  The result is Ok(value) or Fail(message) for a throw.
updatePath(root, path, val) ==
  IF path = << >> THEN Ok(val)
  ELSE LET head == Head(path)
           tail == Tail(path)
       IN
       IF head.t = "string" THEN
         IF ~(isPlainObject(root) \/ root = VNull)
         THEN Fail("Cannot index " \o describeType(root) \o " with string \"" \o head.v \o "\"")
         ELSE LET obj == IF isPlainObject(root) THEN root ELSE VObj(<< >>)
                  child == IF ObjHas(obj, head.v) THEN ObjGet(obj, head.v) ELSE Undefined
                  newVal == updatePath(OrNull(child), tail, val)
              IN IF newVal.ok THEN Ok(ObjSet(obj, head.v, newVal.v)) ELSE newVal
       ELSE IF head.t = "number" THEN
         IF ~(isValueArray(root) \/ root = VNull)
         THEN Fail("Cannot index " \o describeType(root) \o " with number "
                     \o ToString(head.v))
         ELSE LET arr == IF isValueArray(root) THEN root.v ELSE << >>
                  idx == IF head.v < 0 THEN Len(arr) + head.v ELSE head.v
              IN IF idx < 0 THEN Fail("Invalid negative index")
                 ELSE LET child == IF idx < Len(arr) THEN arr[idx + 1] ELSE VNull
                          newVal == updatePath(OrNull(child), tail, val)
                      IN IF newVal.ok THEN Ok(VArr(ArrSet(arr, idx, newVal.v)))
                         ELSE newVal
       ELSE Fail("Path segment must be string, integer, or slice object")

\* The tails p.slice(1) of the paths whose first segment is `seg`.
TailsAt(paths, Match(_)) ==
  LET hit(p) == Match(p)
      sel == SelectSeq(paths, hit)
  IN [i \in 1..Len(sel) |-> Tail(sel[i])]

\* A deletePaths that never finds a path ending at the place it looks at
NoPathEndsHere(paths) == FALSE

\* paths.some((p) => p.length === 0)
SomeEmpty(paths) == \E i \in 1..Len(paths) : paths[i] = << >>

\* The index an array deletion addresses: negative ones count from the end.
NormIdx(len, idx) == IF idx < 0 THEN len + idx ELSE idx

RECURSIVE deletePaths(_, _)
RECURSIVE deleteKeys(_, _, _, _)
RECURSIVE deleteItems(_, _, _)
\* The object branch: for each key of byKey, delete it or recurse into it.
deleteKeys(root, result, keys, paths) ==
  IF keys = << >> THEN result
  ELSE LET key == Head(keys)
           isKey(p) == p # << >> /\ p[1].t = "string" /\ p[1].v = key
           tails == TailsAt(paths, isKey)
           child == IF ObjHas(root, key) THEN ObjGet(root, key) ELSE Undefined
           next == IF SomeEmpty(tails) THEN ObjDel(result, key)
                   ELSE ObjSet(result, key, deletePaths(child, tails))
       IN deleteKeys(root, next, Tail(keys), paths)

\* The array branch: one pass over the original indices.
deleteItems(root, paths, i) ==
  IF i >= Len(root.v) THEN << >>
  ELSE LET isIdx(p) == /\ p # << >>
                       /\ p[1].t = "number"
                       /\ NormIdx(Len(root.v), p[1].v) = i
           tails == TailsAt(paths, isIdx)
           rest == deleteItems(root, paths, i + 1)
       IN IF tails = << >> THEN <<root.v[i + 1]>> \o rest
          ELSE IF SomeEmpty(tails) THEN rest
          ELSE <<deletePaths(root.v[i + 1], tails)>> \o rest

\* The distinct string heads of the paths, in first-occurrence order
\* (Object.keys(byKey)).
RECURSIVE HeadKeys(_, _)
HeadKeys(paths, seen) ==
  IF paths = << >> THEN << >>
  ELSE LET p == Head(paths)
       IN IF p # << >> /\ p[1].t = "string" /\ p[1].v \notin seen
          THEN <<p[1].v>> \o HeadKeys(Tail(paths), seen \cup {p[1].v})
          ELSE HeadKeys(Tail(paths), seen)

deletePaths(root, paths) ==
  IF SomeEmpty(paths) THEN VNull
  ELSE IF isPlainObject(root) THEN deleteKeys(root, root, HeadKeys(paths, {}), paths)
  ELSE IF isValueArray(root) THEN VArr(deleteItems(root, paths, 0))
  ELSE root

RECURSIVE InsertPathDesc(_, _)
InsertPathDesc(s, p) ==
  IF s = << >> THEN <<p>>
  ELSE IF compareValues(VArr(p), VArr(Head(s))) * (-1) < 0 THEN <<p>> \o s
  ELSE <<Head(s)>> \o InsertPathDesc(Tail(s), p)

RECURSIVE SortPathsDesc(_)
\* paths.sort((a, b) => compareValues(a, b) * -1): a stable sort, descending
SortPathsDesc(paths) ==
  IF paths = << >> THEN << >>
  ELSE InsertPathDesc(SortPathsDesc(SubSeq(paths, 1, Len(paths) - 1)), paths[Len(paths)])

(***************************************************************************)
(* The AST (ast.ts).  A node is a record with a kind and one payload per   *)
(* kind; spans are diagnostics only and are left out.                      *)
(***************************************************************************)
Identity == [kind |-> "Identity"]
Literal(value) == [kind |-> "Literal", value |-> value]
Var(name) == [kind |-> "Var", name |-> name]
FieldAccess(target, field) == [kind |-> "FieldAccess", target |-> target, field |-> field]
IndexAccess(target, index) == [kind |-> "IndexAccess", target |-> target, index |-> index]
Iterate(target) == [kind |-> "Iterate", target |-> target]
Array(items) == [kind |-> "Array", items |-> items]
Pipe(left, right) == [kind |-> "Pipe", left |-> left, right |-> right]
Comma(left, right) == [kind |-> "Comma", left |-> left, right |-> right]
Binary(op, left, right) == [kind |-> "Binary", op |-> op, left |-> left, right |-> right]
\* A TryNode's handler is optional: NoNode stands for `undefined`.
NoNode == [kind |-> "None"]
Try(body, handler) == [kind |-> "Try", body |-> body, handler |-> handler]
Label(label, body) == [kind |-> "Label", label |-> label, body |-> body]
Break(label) == [kind |-> "Break", label |-> label]
Reduce(source, var, init, update) ==
  [kind |-> "Reduce", source |-> source, var |-> var, init |-> init, update |-> update]
Foreach(source, var, init, update, extract) ==
  [kind |-> "Foreach", source |-> source, var |-> var, init |-> init,
   update |-> update, extract |-> extract]
As(bind, name, body) == [kind |-> "As", bind |-> bind, name |-> name, body |-> body]
Call(name, args) == [kind |-> "Call", name |-> name, args |-> args]
Def(name, args, body, next) ==
  [kind |-> "Def", name |-> name, args |-> args, body |-> body, next |-> next]
Assignment(op, left, right) ==
  [kind |-> "Assignment", op |-> op, left |-> left, right |-> right]

\* The keys of an object construction: `a:`, `"a":` and `(expr):`
KeyIdentifier(name) == [kind |-> "KeyIdentifier", name |-> name]
KeyString(value) == [kind |-> "KeyString", value |-> value]
KeyExpr(expr) == [kind |-> "KeyExpr", expr |-> expr]
ObjectEntry(key, value) == [key |-> key, value |-> value]
Object(entries) == [kind |-> "Object", entries |-> entries]

\* .[start:end]; NoNode stands for an absent (null) start or end
Slice(target, start, end) == [kind |-> "Slice", target |-> target, start |-> start, end |-> end]

\* `..`
Recurse == [kind |-> "Recurse"]

\* parsePostfix: `expr ?` becomes a Try node around expr.
PostfixQuestion(expr) == Try(expr, Identity)

(***************************************************************************)
(* The builtin registry (builtins/registry.ts, builtins/index.ts): the     *)
(* arities registered under each name.                                     *)
(***************************************************************************)
builtinArities ==
  [type |-> {0}, tostring |-> {0}, tonumber |-> {0}, length |-> {0}, empty |-> {0},
   toboolean |-> {0}, not |-> {0}, walk |-> {1},
   range |-> {1, 2, 3}, limit |-> {2}, first |-> {1}, last |-> {1}, nth |-> {2},
   isempty |-> {1}, all |-> {1}, any |-> {1}, recurse |-> {1},
   error |-> {1},
   keys |-> {0}, has |-> {1}, map |-> {1}, select |-> {1}, sort |-> {0}, sort_by |-> {1},
   unique |-> {0}, unique_by |-> {1}, to_entries |-> {0}, from_entries |-> {0},
   with_entries |-> {1}, group_by |-> {1}, reverse |-> {0}, flatten |-> {0, 1},
   keys_unsorted |-> {0}, transpose |-> {0}, bsearch |-> {1}, combinations |-> {0, 1},
   inside |-> {1},
   split |-> {1}, join |-> {1}, startswith |-> {1}, endswith |-> {1}, contains |-> {1},
   index |-> {1}, rindex |-> {1}, indices |-> {1}, explode |-> {0}, implode |-> {0},
   paths |-> {0}, getpath |-> {1}, setpath |-> {2}, delpaths |-> {1}, path |-> {1},
   floor |-> {0}, ceil |-> {0}, round |-> {0}, abs |-> {0}, sqrt |-> {0}, isnan |-> {0},
   infinite |-> {0}, isfinite |-> {0}, normal |-> {0}, subnormal |-> {0}, min |-> {0},
   max |-> {0}, min_by |-> {1}, max_by |-> {1}, add |-> {0}]

\* builtins[name]: the arities registered for name, {} when there is none.
builtins(name) == IF name \in DOMAIN builtinArities THEN builtinArities[name] ELSE {}

RECURSIVE joinOr(_)
\* specs.map((s) => s.arity).join(' or '): the arities are registered in
\* ascending order
joinOr(arities) ==
  IF arities = {} THEN ""
  ELSE LET least == CHOOSE x \in arities : \A y \in arities : x <= y
       IN IF arities = {least} THEN ToString(least)
          ELSE ToString(least) \o " or " \o joinOr(arities \ {least})

(***************************************************************************)
(* The validator (validate.ts).  visit returns "ok" or the message of the  *)
(* ValidationError it throws; scope is a sequence of sets of names.        *)
(***************************************************************************)
InScope(scope, name) == \E i \in 1..Len(scope) : name \in scope[i]

SeqRange(s) == {s[i] : i \in 1..Len(s)}

RECURSIVE entryNodes(_)
\* The filters of the entries of an object construction, in visiting order
entryNodes(entries) ==
  IF entries = << >> THEN << >>
  ELSE LET entry == Head(entries)
       IN (IF entry.key.kind = "KeyExpr" THEN <<entry.key.expr>> ELSE << >>)
            \o <<entry.value>> \o entryNodes(Tail(entries))

RECURSIVE visit(_, _)
RECURSIVE visitAll(_, _)
\* Visits the nodes in order; the first throw ends the walk.
visitAll(nodes, scope) ==
  IF nodes = << >> THEN "ok"
  ELSE LET r == visit(Head(nodes), scope)
       IN IF r # "ok" THEN r ELSE visitAll(Tail(nodes), scope)

visit(node, scope) ==
  CASE node.kind \in {"Identity", "Literal", "Var"} -> "ok"
    [] node.kind = "FieldAccess" -> visit(node.target, scope)
    [] node.kind = "IndexAccess" -> visitAll(<<node.target, node.index>>, scope)
    [] node.kind = "Array" -> visitAll(node.items, scope)
    [] node.kind = "Object" -> visitAll(entryNodes(node.entries), scope)
    [] node.kind \in {"Pipe", "Comma", "Binary", "Assignment"} ->
         visitAll(<<node.left, node.right>>, scope)
    [] node.kind = "As" -> visitAll(<<node.bind, node.body>>, scope)
    [] node.kind = "Call" ->
         IF InScope(scope, node.name) THEN visitAll(node.args, scope)
         ELSE IF builtins(node.name) = {} THEN "Unknown function: " \o node.name
         ELSE IF Len(node.args) \notin builtins(node.name)
           THEN "Function " \o node.name \o " expects " \o joinOr(builtins(node.name))
                  \o " arguments, but got " \o ToString(Len(node.args))
         ELSE visitAll(node.args, scope)
    [] node.kind = "Def" ->
         LET bodyScope == SeqRange(node.args) \cup {node.name}
             r == visit(node.body, Append(scope, bodyScope))
         IN IF r # "ok" THEN r ELSE visit(node.next, Append(scope, {node.name}))
    [] node.kind = "Reduce" -> visitAll(<<node.source, node.init, node.update>>, scope)
    [] node.kind = "Foreach" ->
         visitAll(<<node.source, node.init, node.update>>
                    \o (IF node.extract = NoNode THEN << >> ELSE <<node.extract>>), scope)
    [] node.kind = "Try" ->
         visitAll(<<node.body>> \o (IF node.handler = NoNode THEN << >> ELSE <<node.handler>>),
                  scope)
    [] node.kind \in {"Recurse", "Iterate", "Break"} -> "ok"
    [] node.kind = "Label" -> visit(node.body, scope)
    [] node.kind = "Slice" ->
         visitAll(<<node.target>> \o (IF node.start = NoNode THEN << >> ELSE <<node.start>>)
                    \o (IF node.end = NoNode THEN << >> ELSE <<node.end>>), scope)

\* validate(node): visit(node, [])
validate(node) == visit(node, << >>)

(***************************************************************************)
(* The evaluator (eval/dispatch.ts and its sub-modules) as a machine of    *)
(* generator frames.                                                       *)
(*                                                                         *)
(* Every live generator is a frame of `stack`, in creation order: a        *)
(* generator created later ends earlier.  `cur` is the frame that runs (0  *)
(* is runAst itself) and `msg` is what it is resumed with: "start" (first  *)
(* next()), "go" (past step/enter), "next" (resumed after a yield), "val"  *)
(* (the generator it iterates yielded), "ret" (that generator completed)   *)
(* or "err" (it threw).                                                    *)
(***************************************************************************)
VARIABLES
  ast,      \* the filter being run
  input,    \* the caller-supplied input value
  limits,   \* ResolvedLimits
  globalVars, \* options.vars: the caller's globals
  phase,    \* "validate", "run" or "done": where run() is
  stack,    \* the live generator frames
  cur,      \* index of the running frame, 0 for runAst
  msg,      \* the signal the running frame is resumed with
  heap,     \* the EnvFrame objects; an EnvStack is a sequence of heap indices
  steps,    \* LimitTracker.steps
  depth,    \* LimitTracker.depth
  outputs,  \* LimitTracker.outputs
  out,      \* the values runAst has collected
  result,   \* how run() ended
  runs,     \* the outcomes of the caller's earlier calls of run()
  store,    \* the JavaScript objects and arrays, by address
  roots,    \* the values a chain of updates has produced, the input first
  seen,     \* what each of those values was when it was produced
  text,     \* lex(text): the source, a sequence of characters
  pos,      \* the lexer's position in text, from 0
  tokens,   \* the tokens pushed so far
  modeStack \* the lexer's modes: 0 = normal, 1 = interpolation

vars == <<ast, input, limits, globalVars, phase, stack, cur, msg, heap, steps, depth, outputs,
           out, result, runs, store, roots, seen,
              text, pos, tokens, modeStack>>

DefaultMaxSteps == 100000
DefaultMaxDepth == 200
DefaultMaxOutputs == 10000

\* resolveLimits({})
DEFAULT_LIMITS ==
  [maxSteps |-> DefaultMaxSteps, maxDepth |-> DefaultMaxDepth,
   maxOutputs |-> DefaultMaxOutputs]

RuntimeError(message) == [cls |-> "RuntimeError", kind |-> "runtime", message |-> message]
ValidationError(message) ==
  [cls |-> "ValidationError", kind |-> "validate", message |-> message]
\* BreakSignal extends Error: it has no kind and no span.
BreakSignal(label) == [cls |-> "BreakSignal", label |-> label, message |-> "Break: " \o label]

EmptyMap == [n \in {} |-> 0]
MapSet(m, k, x) == [n \in DOMAIN m \cup {k} |-> IF n = k THEN x ELSE m[n]]
MapDel(m, k) == [n \in DOMAIN m \ {k} |-> m[n]]

EnvFrame(vs, fs) == [vars |-> vs, funcs |-> fs]

RECURSIVE getVarFrom(_, _, _, _)
getVarFrom(h, env, name, i) ==
  IF i < 1 THEN Undefined
  ELSE IF name \in DOMAIN h[env[i]].vars THEN h[env[i]].vars[name]
  ELSE getVarFrom(h, env, name, i - 1)

\* getVar(env, name): the top-most frame that has the name decides.
getVar(h, env, name) == getVarFrom(h, env, name, Len(env))

\* pushBinding(env, name, value): writes into the top frame of env.
pushBinding(h, env, name, value) ==
  [h EXCEPT ![env[Len(env)]].vars = MapSet(@, name, value)]

\* popBinding(env, name): deletes the name from the top frame of env.
popBinding(h, env, name) ==
  [h EXCEPT ![env[Len(env)]].vars = MapDel(@, name)]

\* A generator frame.  gen is the generator function ("evaluate",
\* "evaluatePath" or "applyUpdates"); entered says that tracker.enter
\* succeeded (the frame is inside evaluate's try/finally); bound says that
\* the frame is inside the try/finally of reduce/foreach around popBinding.
NewFrame(gen, node, inp, env, parent) ==
  [gen |-> gen, node |-> node, input |-> inp, env |-> env, parent |-> parent,
   pc |-> "start", entered |-> FALSE, bound |-> FALSE, deleg |-> FALSE,
   c |-> 0, vals |-> << >>, aux |-> << >>, i |-> 0, j |-> 0, acc |-> VNull]

Start == [t |-> "start"]
Go == [t |-> "go"]
Resumed == [t |-> "next"]
Val(x) == [t |-> "val", v |-> x]
Ret == [t |-> "ret"]
Err(e) == [t |-> "err", e |-> e]

Set(st, c, m, h, s, d, o) ==
  /\ stack' = st
  /\ cur' = c
  /\ msg' = m
  /\ heap' = h
  /\ steps' = s
  /\ depth' = d
  /\ outputs' = o

Put(f) == [stack EXCEPT ![cur] = f]

\* LimitTracker.exit
exit(d) == IF d - 1 > 0 THEN d - 1 ELSE 0

RECURSIVE Finalize(_, _, _, _)
\* The finally blocks of the frames k, k-1, .., lo of st, in that order: what
\* unwinding (a throw, or return() on an abandoned generator) runs.
Finalize(st, k, lo, hd) ==
  IF k < lo THEN hd
  ELSE LET f == st[k]
           h1 == IF f.bound THEN popBinding(hd.heap, f.env, f.node.var) ELSE hd.heap
           d1 == IF f.entered THEN exit(hd.depth) ELSE hd.depth
       IN Finalize(st, k - 1, lo, [heap |-> h1, depth |-> d1])

\* The running frame creates a generator and calls next() on it.
DoSpawn(f, child) ==
  Set(Append(Put(f), child), Len(stack) + 1, Start, heap, steps, depth, outputs)

DoSpawnH(f, child, h) ==
  Set(Append(Put(f), child), Len(stack) + 1, Start, h, steps, depth, outputs)

\* The running frame yields v to the generator's consumer.
DoYield(f, v) == Set(Put(f), f.parent, Val(v), heap, steps, depth, outputs)

\* The running frame calls next() on the generator at index child.
DoResume(f, child) == Set(Put(f), child, Resumed, heap, steps, depth, outputs)

\* The running frame throws e with counters s and o: the generators it was
\* iterating are closed, its own finally blocks run, its consumer gets e.
DoThrowWith(f, e, s, o) ==
  LET fin == Finalize(Put(f), Len(stack), cur, [heap |-> heap, depth |-> depth])
  IN Set(SubSeq(stack, 1, cur - 1), f.parent, Err(e), fin.heap, s, fin.depth, o)

DoThrow(f, e) == DoThrowWith(f, e, steps, outputs)

\* The running frame returns: generators it still iterates are closed.
DoFinish(f) ==
  LET fin == Finalize(Put(f), Len(stack), cur, [heap |-> heap, depth |-> depth])
  IN Set(SubSeq(stack, 1, cur - 1), f.parent, Ret, fin.heap, steps, fin.depth, outputs)

\* An emit that does not count
Uncounted(n) == n

\* this.outputs += 1
Counted(n) == n + 1

\* yield emit(v, span, tracker): tracker.emit counts and may throw.
DoEmitYield(f, v) ==
  IF Counted(outputs) > limits.maxOutputs
  THEN DoThrowWith(f, RuntimeError("Output limit exceeded"), steps, Counted(outputs))
  ELSE Set(Put(f), f.parent, Val(v), heap, steps, depth, Counted(outputs))

Frame == stack[cur]
Running == phase = "run" /\ cur > 0
\* Inside `yield* g` the frame only relays g's values and the consumer's next().
Delegating == Running /\ Frame.deleg /\ msg.t \in {"val", "next"}
At(gen, kind) ==
  /\ Running
  /\ Frame.gen = gen
  /\ Frame.node.kind = kind
  /\ ~Delegating
  /\ msg.t \notin {"start", "err"}

\* Catch clauses in which a label ends on a break of any name
CatchesAnyBreak ==
  /\ msg.t = "err"
  /\ Frame.gen = "evaluate"
  /\ \/ /\ Frame.node.kind = "Try"
        /\ Frame.pc = "body"
        /\ msg.e.cls = "RuntimeError"
     \/ /\ Frame.node.kind = "Label"
        /\ msg.e.cls = "BreakSignal"

\* No catch clause at all
CatchesNothing == FALSE

\* Whether the running frame has a catch clause for the error it receives.
Catches ==
  /\ msg.t = "err"
  /\ Frame.gen = "evaluate"
  /\ \/ /\ Frame.node.kind = "Try"
        /\ Frame.pc = "body"
        /\ msg.e.cls = "RuntimeError"
     \/ /\ Frame.node.kind = "Label"
        /\ msg.e.cls = "BreakSignal"
        /\ msg.e.label = Frame.node.label

\* A frame of a kind that has a catch clause
AtCatching(kind) ==
  /\ Running
  /\ Frame.gen = "evaluate"
  /\ Frame.node.kind = kind
  /\ ~Delegating
  /\ msg.t # "start"
  /\ msg.t = "err" => Catches
Keep == UNCHANGED <<ast, input, limits, globalVars, phase, out, result, runs, store, roots, seen,
              text, pos, tokens, modeStack>>

\* A child for evaluate(node, inp, env, tracker)
Child(node, inp, env) == NewFrame("evaluate", node, inp, env, cur)

(***************************************************************************)
(* run() and runAst()                                                      *)
(***************************************************************************)
InitWith(scenarios) ==
  \E sc \in scenarios :
    /\ ast = sc.ast
    /\ input = sc.input
    /\ limits = sc.limits
    /\ globalVars = sc.vars
    /\ phase = "validate"
    /\ stack = << >>
    /\ cur = 0
    /\ msg = Start
    /\ heap = << >>
    /\ steps = 0
    /\ depth = 0
    /\ outputs = 0
    /\ out = << >>
    /\ result = [status |-> "pending"]
    /\ runs = << >>
    /\ store = << >>
    /\ roots = << >>
    /\ seen = << >>
    /\ text = << >>
    /\ pos = 0
    /\ tokens = << >>
    /\ modeStack = << >>

\* A tracker that goes on counting where the previous call stopped
TrackerOfLastRun == [steps |-> steps, depth |-> depth, outputs |-> outputs]

\* new LimitTracker(...): the counters of a tracker start at zero
NewTracker == [steps |-> 0, depth |-> 0, outputs |-> 0]

\* run(): validate(ast), then runAst creates the tracker, the global frame
\* and the root generator.
Validate ==
  /\ phase = "validate"
  /\ LET r == validate(ast) IN
     IF r # "ok"
     THEN /\ phase' = "done"
          /\ result' = [status |-> "error", error |-> ValidationError(r)]
          /\ UNCHANGED <<stack, cur, msg, heap, steps, depth, outputs>>
     ELSE /\ phase' = "run"
          /\ result' = result
          /\ steps' = NewTracker.steps
          /\ depth' = NewTracker.depth
          /\ outputs' = NewTracker.outputs
          /\ heap' = <<EnvFrame(globalVars, EmptyMap)>>
          /\ stack' = <<NewFrame("evaluate", ast, input, <<1>>, 0)>>
          /\ cur' = 1
          /\ msg' = Start
  /\ UNCHANGED <<ast, input, limits, globalVars, out, runs, store, roots, seen,
              text, pos, tokens, modeStack>>

\* Array.from(evaluate(...)) in runAst: collect a value and ask for the next.
DriverCollect ==
  /\ phase = "run" /\ cur = 0 /\ msg.t = "val"
  /\ out' = Append(out, msg.v)
  /\ cur' = 1
  /\ msg' = Resumed
  /\ UNCHANGED <<ast, input, limits, globalVars, phase, stack, heap, steps, depth, outputs, result,
                 runs, store, roots, seen,
              text, pos, tokens, modeStack>>

DriverDone ==
  /\ phase = "run" /\ cur = 0 /\ msg.t = "ret"
  /\ phase' = "done"
  /\ result' = [status |-> "ok"]
  /\ UNCHANGED <<ast, input, limits, globalVars, stack, cur, msg, heap, steps, depth, outputs, out,
                 runs, store, roots, seen,
              text, pos, tokens, modeStack>>

\* An exception leaves runAst and run(): the caller gets it.
DriverFault ==
  /\ phase = "run" /\ cur = 0 /\ msg.t = "err"
  /\ phase' = "done"
  /\ result' = [status |-> "error", error |-> msg.e]
  /\ UNCHANGED <<ast, input, limits, globalVars, stack, cur, msg, heap, steps, depth, outputs, out,
                 runs, store, roots, seen,
              text, pos, tokens, modeStack>>

\* What the caller of run() gets: the values, or the exception.
Outcome ==
  IF result.status = "ok" THEN [status |-> "ok", values |-> out]
  ELSE [status |-> "error", error |-> result.error]

\* The caller calls run() once more with the same source, input and
\* options.  Nothing of the first call is passed to the second: run()
\* parses and validates again and runAst builds its tracker, its global
\* frame and its root generator anew.
RunAgain ==
  /\ phase = "done"
  /\ runs = << >>
  /\ runs' = <<Outcome>>
  /\ phase' = "validate"
  /\ out' = << >>
  /\ result' = [status |-> "pending"]
  /\ UNCHANGED <<ast, input, limits, globalVars, stack, cur, msg, heap, steps, depth, outputs,
                 store, roots, seen,
              text, pos, tokens, modeStack>>

(***************************************************************************)
(* evaluate(): entry, delegation and unwinding                             *)
(***************************************************************************)
\* tracker.step(node.span); tracker.enter(node.span); try { switch ...
Enter ==
  /\ Running /\ Frame.gen = "evaluate" /\ msg.t = "start"
  /\ Keep
  /\ IF steps + 1 > limits.maxSteps
     THEN DoThrowWith(Frame, RuntimeError("Step limit exceeded"), steps + 1, outputs)
     ELSE IF depth + 1 > limits.maxDepth
     THEN \* thrown before the try: no tracker.exit() for this enter
          Set(SubSeq(stack, 1, cur - 1), Frame.parent,
              Err(RuntimeError("Max depth exceeded")), heap, steps + 1, depth + 1, outputs)
     ELSE Set(Put([Frame EXCEPT !.entered = TRUE, !.pc = "go"]), cur, Go,
              heap, steps + 1, depth + 1, outputs)

\* yield* g: a value of g is yielded on to this generator's consumer
PassUp ==
  /\ Delegating /\ msg.t = "val"
  /\ Keep
  /\ DoYield(Frame, msg.v)

\* yield* g: resuming this generator resumes g
PassDown ==
  /\ Delegating /\ msg.t = "next"
  /\ Keep
  /\ DoResume(Frame, Frame.c)

\* An exception passes through a generator that does not catch it.
Propagate ==
  /\ Running /\ msg.t = "err" /\ ~Catches
  /\ Keep
  /\ DoThrow(Frame, msg.e)

(***************************************************************************)
(* evaluate(): the node kinds                                              *)
(***************************************************************************)
EvalIdentity ==
  /\ At("evaluate", "Identity")
  /\ Keep
  /\ CASE msg.t = "go" -> DoEmitYield(Frame, Frame.input)
       [] msg.t = "next" -> DoFinish(Frame)

EvalLiteral ==
  /\ At("evaluate", "Literal")
  /\ Keep
  /\ CASE msg.t = "go" -> DoEmitYield(Frame, Frame.node.value)
       [] msg.t = "next" -> DoFinish(Frame)

EvalVar ==
  /\ At("evaluate", "Var")
  /\ Keep
  /\ CASE msg.t = "go" ->
            LET val == getVar(heap, Frame.env, Frame.node.name) IN
            IF val = Undefined
            THEN DoThrow(Frame, RuntimeError("Undefined variable: " \o Frame.node.name))
            ELSE DoEmitYield(Frame, val)
       [] msg.t = "next" -> DoFinish(Frame)

\* for (const leftVal of evaluate(left)) yield* evaluate(right, leftVal)
EvalPipe ==
  /\ At("evaluate", "Pipe")
  /\ Keep
  /\ CASE msg.t = "go" ->
            DoSpawn([Frame EXCEPT !.pc = "left", !.i = Len(stack) + 1],
                    Child(Frame.node.left, Frame.input, Frame.env))
       [] msg.t = "val" ->
            DoSpawn([Frame EXCEPT !.pc = "right", !.deleg = TRUE, !.c = Len(stack) + 1],
                    Child(Frame.node.right, msg.v, Frame.env))
       [] msg.t = "ret" /\ Frame.pc = "right" ->
            DoResume([Frame EXCEPT !.pc = "left", !.deleg = FALSE], Frame.i)
       [] msg.t = "ret" /\ Frame.pc = "left" -> DoFinish(Frame)

\* yield* evaluate(left); yield* evaluate(right)
EvalComma ==
  /\ At("evaluate", "Comma")
  /\ Keep
  /\ CASE msg.t = "go" ->
            DoSpawn([Frame EXCEPT !.pc = "left", !.deleg = TRUE, !.c = Len(stack) + 1],
                    Child(Frame.node.left, Frame.input, Frame.env))
       [] msg.t = "ret" /\ Frame.pc = "left" ->
            DoSpawn([Frame EXCEPT !.pc = "right", !.deleg = TRUE, !.c = Len(stack) + 1],
                    Child(Frame.node.right, Frame.input, Frame.env))
       [] msg.t = "ret" /\ Frame.pc = "right" -> DoFinish(Frame)

\* evalTry: try { yield* body } catch (err) { if (err instanceof RuntimeError)
\* { if (handler) yield* handler on err.message } else throw err }
EvalTry ==
  /\ AtCatching("Try")
  /\ Keep
  /\ CASE msg.t = "go" ->
            DoSpawn([Frame EXCEPT !.pc = "body", !.deleg = TRUE, !.c = Len(stack) + 1],
                    Child(Frame.node.body, Frame.input, Frame.env))
       [] msg.t = "err" ->
            IF Frame.node.handler # NoNode
            THEN DoSpawn([Frame EXCEPT !.pc = "handler", !.deleg = TRUE,
                                       !.c = Len(stack) + 1],
                         Child(Frame.node.handler, VStr(msg.e.message), Frame.env))
            ELSE DoFinish(Frame)
       [] msg.t = "ret" -> DoFinish(Frame)

\* evalLabel: a BreakSignal with this label ends the label's output.
EvalLabel ==
  /\ AtCatching("Label")
  /\ Keep
  /\ CASE msg.t = "go" ->
            DoSpawn([Frame EXCEPT !.pc = "body", !.deleg = TRUE, !.c = Len(stack) + 1],
                    Child(Frame.node.body, Frame.input, Frame.env))
       [] msg.t = "err" -> DoFinish(Frame)
       [] msg.t = "ret" -> DoFinish(Frame)

\* case 'Break': throw new BreakSignal(node.label)
EvalBreak ==
  /\ At("evaluate", "Break")
  /\ msg.t = "go"
  /\ Keep
  /\ DoThrow(Frame, BreakSignal(Frame.node.label))

\* The next pending item of the frame: emit it, throw it, or, when there is
\* none left, ask the generator at index c for its next value.
EmitPending(f) ==
  IF f.vals = << >> THEN DoResume(f, f.c)
  ELSE IF Head(f.vals).ok THEN DoEmitYield([f EXCEPT !.vals = Tail(f.vals)], Head(f.vals).v)
  ELSE DoThrow(f, RuntimeError(Head(f.vals).msg))

\* for (const container of evaluate(target)) <emit the items of container>
ForContainers(items(_)) ==
  CASE msg.t = "go" ->
         DoSpawn([Frame EXCEPT !.pc = "target", !.c = Len(stack) + 1],
                 Child(Frame.node.target, Frame.input, Frame.env))
    [] msg.t = "val" -> EmitPending([Frame EXCEPT !.vals = items(msg.v)])
    [] msg.t = "next" -> EmitPending(Frame)
    [] msg.t = "ret" -> DoFinish(Frame)

fieldItems(container, field) ==
  IF container = VNull THEN <<Ok(VNull)>>
  ELSE IF isPlainObject(container)
  THEN <<Ok(IF ObjHas(container, field) THEN ObjGet(container, field) ELSE VNull)>>
  ELSE <<Fail("Cannot index " \o describeType(container) \o " with string")>>

EvalFieldAccess ==
  /\ At("evaluate", "FieldAccess")
  /\ Keep
  /\ LET items(container) == fieldItems(container, Frame.node.field)
     IN ForContainers(items)

\* toIndex on a value of the model (null or an integer, else it throws)
toIndex(value) ==
  IF value = VNull THEN Ok(VNull)
  ELSE IF value.t = "number" THEN Ok(value)
  ELSE Fail("Expected numeric index")

arrayItem(container, idxValue) ==
  LET index == toIndex(idxValue) IN
  IF ~index.ok THEN index
  ELSE IF index.v = VNull THEN Ok(VNull)
  ELSE LET resolved == IF index.v.v < 0 THEN Len(container.v) + index.v.v ELSE index.v.v
       IN IF resolved < 0 \/ resolved >= Len(container.v) THEN Ok(VNull)
          ELSE Ok(container.v[resolved + 1])

objectItem(container, keyValue) ==
  IF keyValue.t # "string"
  THEN Fail("Cannot index object with " \o describeType(keyValue))
  ELSE Ok(IF ObjHas(container, keyValue.v) THEN ObjGet(container, keyValue.v) ELSE VNull)

indexItems(container, indexValues) ==
  IF container = VNull THEN <<Ok(VNull)>>
  ELSE IF isValueArray(container)
  THEN [k \in 1..Len(indexValues) |-> arrayItem(container, indexValues[k])]
  ELSE IF isPlainObject(container)
  THEN [k \in 1..Len(indexValues) |-> objectItem(container, indexValues[k])]
  ELSE <<Fail("Cannot index " \o describeType(container))>>

\* evalIndex: the index values are collected first, then the containers are
\* iterated.
EvalIndexAccess ==
  /\ At("evaluate", "IndexAccess")
  /\ Keep
  /\ CASE msg.t = "go" ->
            DoSpawn([Frame EXCEPT !.pc = "index", !.c = Len(stack) + 1],
                    Child(Frame.node.index, Frame.input, Frame.env))
       [] msg.t = "val" /\ Frame.pc = "index" ->
            DoResume([Frame EXCEPT !.aux = Append(Frame.aux, msg.v)], Frame.c)
       [] msg.t = "ret" /\ Frame.pc = "index" ->
            DoSpawn([Frame EXCEPT !.pc = "target", !.c = Len(stack) + 1],
                    Child(Frame.node.target, Frame.input, Frame.env))
       [] msg.t = "val" /\ Frame.pc = "target" ->
            EmitPending([Frame EXCEPT !.vals = indexItems(msg.v, Frame.aux)])
       [] msg.t = "next" -> EmitPending(Frame)
       [] msg.t = "ret" /\ Frame.pc = "target" -> DoFinish(Frame)

iterateItems(container) ==
  IF container = VNull THEN << >>
  ELSE IF isValueArray(container) THEN [k \in 1..Len(container.v) |-> Ok(container.v[k])]
  ELSE IF isPlainObject(container)
  THEN LET keys == SortStrings(ObjKeys(container))
       IN [k \in 1..Len(keys) |-> Ok(ObjGet(container, keys[k]))]
  ELSE <<Fail("Cannot iterate over " \o describeType(container))>>

EvalIterate ==
  /\ At("evaluate", "Iterate")
  /\ Keep
  /\ ForContainers(iterateItems)

\* case 'Recurse': yield* evalRecurse(node, input, ...)
EvalRecurse ==
  /\ At("evaluate", "Recurse")
  /\ Keep
  /\ CASE msg.t = "go" ->
            DoSpawn([Frame EXCEPT !.pc = "recurse", !.deleg = TRUE, !.c = Len(stack) + 1],
                    NewFrame("evalRecurse", Frame.node, Frame.input, Frame.env, cur))
       [] msg.t = "ret" -> DoFinish(Frame)

\* The children evalRecurse descends into: the items of an array, the
\* members of an object in the order of Object.keys(input).sort()
recurseChildren(inp) ==
  IF isValueArray(inp) THEN inp.v
  ELSE IF isPlainObject(inp)
  THEN LET keys == SortStrings(ObjKeys(inp))
       IN [k \in 1..Len(keys) |-> ObjGet(inp, keys[k])]
  ELSE << >>

\* evalRecurse: emit the input, then yield* evalRecurse(child) per child
RecurseInto ==
  /\ Running
  /\ Frame.gen = "evalRecurse"
  /\ ~Delegating
  /\ msg.t # "err"
  /\ Keep
  /\ LET nextChild(f) ==
           IF f.i >= Len(f.vals) THEN DoFinish(f)
           ELSE DoSpawn([f EXCEPT !.i = f.i + 1, !.deleg = TRUE, !.c = Len(stack) + 1],
                        NewFrame("evalRecurse", f.node, f.vals[f.i + 1], f.env, cur))
     IN CASE msg.t = "start" ->
               DoEmitYield([Frame EXCEPT !.pc = "children",
                                         !.vals = recurseChildren(Frame.input)],
                           Frame.input)
          [] msg.t = "next" -> nextChild(Frame)
          [] msg.t = "ret" -> nextChild(Frame)

\* buildArray: the items are collected and the array is yielded as it is.
EvalArray ==
  /\ At("evaluate", "Array")
  /\ Keep
  /\ LET nextItem(f) ==
           IF f.i >= Len(f.node.items)
           THEN DoYield([f EXCEPT !.pc = "done"], VArr(f.vals))
           ELSE DoSpawn([f EXCEPT !.pc = "item", !.i = f.i + 1, !.c = Len(stack) + 1],
                        Child(f.node.items[f.i + 1], f.input, f.env))
     IN CASE msg.t = "go" -> nextItem(Frame)
          [] msg.t = "val" -> DoResume([Frame EXCEPT !.vals = Append(Frame.vals, msg.v)], Frame.c)
          [] msg.t = "ret" -> nextItem(Frame)
          [] msg.t = "next" -> DoFinish(Frame)

\* buildObjects: const obj = {}; yield* fillObject(node.entries, 0, obj, ...).
\* acc is `obj`, the one object every fillObject of this construction writes.
EvalObject ==
  /\ At("evaluate", "Object")
  /\ Keep
  /\ CASE msg.t = "go" ->
            DoSpawn([Frame EXCEPT !.pc = "fill", !.deleg = TRUE, !.acc = VObj(<< >>),
                                  !.c = Len(stack) + 1],
                    NewFrame("fillObject", Frame.node, Frame.input, Frame.env, cur))
       [] msg.t = "ret" -> DoFinish(Frame)

RECURSIVE ObjectOwner(_, _)
\* The frame of buildObjects whose `obj` the fillObject at k was passed
ObjectOwner(st, k) ==
  IF st[k].gen # "fillObject" THEN k ELSE ObjectOwner(st, st[k].parent)

\* fillObject(entries, index, current, ...): i is `index`, aux is `keys`, j
\* counts the keys taken; the generator of the entry's values is the first
\* generator this frame keeps open, at cur + 1.
FillObject ==
  /\ Running
  /\ Frame.gen = "fillObject"
  /\ ~Delegating
  /\ msg.t # "err"
  /\ Keep
  /\ LET entries == Frame.node.entries
         owner == ObjectOwner(stack, cur)
         nextKey(f) ==
           IF f.j >= Len(f.aux) THEN DoFinish(f)
           ELSE DoSpawn([f EXCEPT !.pc = "value", !.j = f.j + 1, !.c = Len(stack) + 1],
                        Child(entries[f.i + 1].value, f.input, f.env))
     IN CASE msg.t = "start" /\ Frame.i >= Len(entries) ->
               DoYield([Frame EXCEPT !.pc = "done"], stack[owner].acc)
          [] msg.t = "next" -> DoFinish(Frame)
          [] msg.t = "start" /\ Frame.i < Len(entries) ->
               LET key == entries[Frame.i + 1].key IN
               IF key.kind = "KeyIdentifier" THEN nextKey([Frame EXCEPT !.aux = <<key.name>>])
               ELSE IF key.kind = "KeyString" THEN nextKey([Frame EXCEPT !.aux = <<key.value>>])
               ELSE DoSpawn([Frame EXCEPT !.pc = "keys", !.c = Len(stack) + 1],
                            Child(key.expr, Frame.input, Frame.env))
          [] msg.t = "val" /\ Frame.pc = "keys" ->
               IF msg.v.t # "string"
               THEN DoThrow(Frame, RuntimeError("Object key must be a string"))
               ELSE DoResume([Frame EXCEPT !.aux = Append(Frame.aux, msg.v.v)], Frame.c)
          [] msg.t = "ret" /\ Frame.pc = "keys" -> nextKey(Frame)
          [] msg.t = "val" /\ Frame.pc = "value" ->
               \* current[key] = val; yield* fillObject(entries, index + 1, current, ...)
               LET f == [Frame EXCEPT !.pc = "rest", !.deleg = TRUE, !.c = Len(stack) + 1]
                   st == [stack EXCEPT ![cur] = f,
                                       ![owner].acc = ObjSet(@, Frame.aux[Frame.j], msg.v)]
                   rest == [NewFrame("fillObject", Frame.node, Frame.input, Frame.env, cur)
                              EXCEPT !.i = Frame.i + 1]
               IN Set(Append(st, rest), Len(stack) + 1, Start, heap, steps, depth, outputs)
          [] msg.t = "ret" /\ Frame.pc = "rest" ->
               \* delete current[key]; then the next value of the entry
               LET f == [Frame EXCEPT !.pc = "value", !.deleg = FALSE]
                   st == [stack EXCEPT ![cur] = f,
                                       ![owner].acc = ObjDel(@, Frame.aux[Frame.j])]
               IN Set(st, cur + 1, Resumed, heap, steps, depth, outputs)
          [] msg.t = "ret" /\ Frame.pc = "value" -> nextKey(Frame)

RECURSIVE MergeInto(_, _)
\* { ...left, ...right }
MergeInto(left, pairs) ==
  IF pairs = << >> THEN left
  ELSE MergeInto(ObjSet(left, Head(pairs)[1], Head(pairs)[2]), Tail(pairs))

add(left, right) ==
  IF left = VNull THEN Ok(right)
  ELSE IF right = VNull THEN Ok(left)
  ELSE IF left.t = "number" /\ right.t = "number" THEN Ok(NumAdd(left, right))
  ELSE IF left.t = "string" /\ right.t = "string" THEN Ok(VStr(left.v \o right.v))
  ELSE IF left.t = "array" /\ right.t = "array" THEN Ok(VArr(left.v \o right.v))
  ELSE IF left.t = "object" /\ right.t = "object" THEN Ok(MergeInto(left, right.v))
  ELSE Fail("Cannot add " \o describeType(left) \o " and " \o describeType(right))

RECURSIVE isEqual(_, _)
\* isEqual: what == and != use
isEqual(a, b) ==
  IF StrictEq(a, b) THEN TRUE
  ELSE IF a = VNull \/ b = VNull THEN FALSE
  ELSE IF typeof(a) # typeof(b) THEN FALSE
  ELSE IF a.t = "array" /\ b.t = "array"
    THEN /\ Len(a.v) = Len(b.v)
         /\ \A i \in 1..Len(a.v) : isEqual(a.v[i], b.v[i])
  ELSE IF a.t = "object" /\ b.t = "object"
    THEN LET ka == SortStrings(ObjKeys(a))
             kb == SortStrings(ObjKeys(b))
         IN /\ Len(ka) = Len(kb)
            /\ \A i \in 1..Len(ka) : ka[i] = kb[i]
            /\ \A i \in 1..Len(ka) : isEqual(ObjGet(a, ka[i]), ObjGet(b, ka[i]))
  ELSE FALSE

\* typeOrder inside compare
typeOrder(v) ==
  CASE v = VNull -> 0
    [] v.t = "boolean" -> 1
    [] v.t = "number" -> 2
    [] v.t = "string" -> 3
    [] v.t = "array" -> 4
    [] OTHER -> 5

RECURSIVE compare(_, _)
RECURSIVE compareItems(_, _, _)
RECURSIVE compareEntries(_, _, _, _, _)
\* the array loop of compare
compareItems(a, b, i) ==
  IF i > Len(a) \/ i > Len(b) THEN VNum(Len(a) - Len(b))
  ELSE LET c == compare(a[i], b[i])
       IN IF c # VNum(0) THEN c ELSE compareItems(a, b, i + 1)

\* the object loop of compare
compareEntries(a, b, keysA, keysB, i) ==
  IF i > Len(keysA) \/ i > Len(keysB) THEN VNum(Len(keysA) - Len(keysB))
  ELSE LET kA == keysA[i]
           kB == keysB[i]
       IN IF kA # kB THEN (IF StrLess(kA, kB) THEN VNum(-1) ELSE VNum(1))
          ELSE LET c == compare(ObjGet(a, kA), ObjGet(b, kB))
               IN IF c # VNum(0) THEN c ELSE compareEntries(a, b, keysA, keysB, i + 1)

\* compare: what <, <=, > and >= use.  The result is a
\* JavaScript number, which the caller tests against 0.
compare(a, b) ==
  IF StrictEq(a, b) THEN VNum(0)
  ELSE IF typeOrder(a) # typeOrder(b) THEN VNum(typeOrder(a) - typeOrder(b))
  ELSE IF a.t = "boolean" THEN VNum((IF a.v THEN 1 ELSE 0) - (IF b.v THEN 1 ELSE 0))
  ELSE IF a.t = "number" THEN NumSub(a, b)
  ELSE IF a.t = "string" THEN (IF StrLess(a.v, b.v) THEN VNum(-1) ELSE VNum(1))
  ELSE IF a.t = "array" THEN compareItems(a.v, b.v, 1)
  ELSE IF a.t = "object"
    THEN compareEntries(a, b, SortStrings(ObjKeys(a)), SortStrings(ObjKeys(b)), 1)
  ELSE VNum(0)

\* applyBinaryOp, for the operators the model's programs use
applyBinaryOp(op, left, right) ==
  CASE op = "+" -> add(left, right)
    [] op = "Eq" -> Ok(VBool(isEqual(left, right)))
    [] op = "Neq" -> Ok(VBool(~isEqual(left, right)))
    [] op = "Lt" -> Ok(VBool(NumLess(compare(left, right), VNum(0))))
    [] op = "Lte" -> Ok(VBool(NumLessEq(compare(left, right), VNum(0))))
    [] op = "Gt" -> Ok(VBool(NumLess(VNum(0), compare(left, right))))
    [] op = "Gte" -> Ok(VBool(NumLessEq(VNum(0), compare(left, right))))
    [] OTHER -> Fail("Unknown binary operator: " \o op)

\* for (const l of leftRes) for (const r of rightRes) applyBinaryOp(op, l, r)
Products(op, leftRes, rightRes) ==
  [k \in 1..(Len(leftRes) * Len(rightRes)) |->
     applyBinaryOp(op, leftRes[((k - 1) \div Len(rightRes)) + 1],
                   rightRes[((k - 1) % Len(rightRes)) + 1])]

\* The next pending item of a frame that iterates no generator any more.
EmitRest(f) ==
  IF f.vals = << >> THEN DoFinish(f)
  ELSE IF Head(f.vals).ok THEN DoEmitYield([f EXCEPT !.vals = Tail(f.vals)], Head(f.vals).v)
  ELSE DoThrow(f, RuntimeError(Head(f.vals).msg))

EvalBinary ==
  /\ At("evaluate", "Binary")
  /\ Keep
  /\ CASE msg.t = "go" ->
            DoSpawn([Frame EXCEPT !.pc = "left", !.c = Len(stack) + 1],
                    Child(Frame.node.left, Frame.input, Frame.env))
       [] msg.t = "val" /\ Frame.pc = "left" ->
            DoResume([Frame EXCEPT !.aux = Append(Frame.aux, msg.v)], Frame.c)
       [] msg.t = "ret" /\ Frame.pc = "left" ->
            DoSpawn([Frame EXCEPT !.pc = "right", !.c = Len(stack) + 1],
                    Child(Frame.node.right, Frame.input, Frame.env))
       [] msg.t = "val" /\ Frame.pc = "right" ->
            DoResume([Frame EXCEPT !.vals = Append(Frame.vals, msg.v)], Frame.c)
       [] msg.t = "ret" /\ Frame.pc = "right" ->
            EmitRest([Frame EXCEPT !.pc = "emit",
                                   !.vals = Products(Frame.node.op, Frame.aux, Frame.vals)])
       [] msg.t = "next" -> EmitRest(Frame)

\* case 'As': the bound values are collected, then the body runs once per
\* value under [...env, newFrame].
EvalAs ==
  /\ At("evaluate", "As")
  /\ Keep
  /\ LET nextBody(f) ==
           IF f.i >= Len(f.vals) THEN DoFinish(f)
           ELSE DoSpawnH([f EXCEPT !.pc = "body", !.i = f.i + 1, !.deleg = TRUE,
                                   !.c = Len(stack) + 1],
                         Child(f.node.body, f.input, Append(f.env, Len(heap) + 1)),
                         Append(heap, EnvFrame(MapSet(EmptyMap, f.node.name, f.vals[f.i + 1]),
                                               EmptyMap)))
     IN CASE msg.t = "go" ->
               DoSpawn([Frame EXCEPT !.pc = "bind", !.c = Len(stack) + 1],
                       Child(Frame.node.bind, Frame.input, Frame.env))
          [] msg.t = "val" /\ Frame.pc = "bind" ->
               DoResume([Frame EXCEPT !.vals = Append(Frame.vals, msg.v)], Frame.c)
          [] msg.t = "ret" /\ Frame.pc = "bind" -> nextBody(Frame)
          [] msg.t = "ret" /\ Frame.pc = "body" -> nextBody([Frame EXCEPT !.deleg = FALSE])

\* The shared start of evalReduce and evalForeach: the init value, then for
\* each item of the source: tracker.step, pushBinding, the update.
LoopHead(what) ==
  CASE msg.t = "go" ->
         DoSpawn([Frame EXCEPT !.pc = "init", !.c = Len(stack) + 1],
                 Child(Frame.node.init, Frame.input, Frame.env))
    [] msg.t = "val" /\ Frame.pc = "init" ->
         DoResume([Frame EXCEPT !.vals = Append(Frame.vals, msg.v)], Frame.c)
    [] msg.t = "ret" /\ Frame.pc = "init" ->
         IF Len(Frame.vals) # 1
         THEN DoThrow(Frame, RuntimeError(what \o " init must single value"))
         ELSE DoSpawn([Frame EXCEPT !.pc = "source", !.acc = Frame.vals[1],
                                    !.i = Len(stack) + 1],
                      Child(Frame.node.source, Frame.input, Frame.env))
    [] msg.t = "val" /\ Frame.pc = "source" ->
         IF steps + 1 > limits.maxSteps
         THEN DoThrowWith(Frame, RuntimeError("Step limit exceeded"), steps + 1, outputs)
         ELSE LET f == [Frame EXCEPT !.pc = "update", !.bound = TRUE, !.vals = << >>,
                                     !.c = Len(stack) + 1]
              IN Set(Append(Put(f), Child(f.node.update, f.acc, f.env)), Len(stack) + 1,
                     Start, pushBinding(heap, f.env, f.node.var, msg.v), steps + 1, depth,
                     outputs)
    [] msg.t = "val" /\ Frame.pc = "update" ->
         DoResume([Frame EXCEPT !.vals = Append(Frame.vals, msg.v)], Frame.c)

\* finally { popBinding(env, node.var) }, then the next item of the source
NextItem(f) ==
  Set(Put([f EXCEPT !.pc = "source", !.bound = FALSE]), f.i, Resumed,
      popBinding(heap, f.env, f.node.var), steps, depth, outputs)

EvalReduce ==
  /\ At("evaluate", "Reduce")
  /\ Keep
  /\ CASE msg.t = "ret" /\ Frame.pc = "update" ->
            IF Len(Frame.vals) # 1
            THEN DoThrow(Frame, RuntimeError("Reduce update must produce single value"))
            ELSE NextItem([Frame EXCEPT !.acc = Frame.vals[1]])
       [] msg.t = "ret" /\ Frame.pc = "source" ->
            DoEmitYield([Frame EXCEPT !.pc = "emit"], Frame.acc)
       [] msg.t = "next" -> DoFinish(Frame)
       [] OTHER -> LoopHead("Reduce")

EvalForeach ==
  /\ At("evaluate", "Foreach")
  /\ Keep
  /\ CASE msg.t = "ret" /\ Frame.pc = "update" ->
            IF Len(Frame.vals) # 1
            THEN DoThrow(Frame, RuntimeError("Foreach update must produce single value"))
            ELSE IF Frame.node.extract # NoNode
            THEN DoSpawn([Frame EXCEPT !.pc = "extract", !.acc = Frame.vals[1],
                                       !.c = Len(stack) + 1],
                         Child(Frame.node.extract, Frame.vals[1], Frame.env))
            ELSE DoEmitYield([Frame EXCEPT !.pc = "emit", !.acc = Frame.vals[1]],
                             Frame.vals[1])
       [] msg.t = "val" /\ Frame.pc = "extract" -> DoEmitYield(Frame, msg.v)
       [] msg.t = "next" /\ Frame.pc = "extract" -> DoResume(Frame, Frame.c)
       [] msg.t = "ret" /\ Frame.pc = "extract" -> NextItem(Frame)
       [] msg.t = "next" /\ Frame.pc = "emit" -> NextItem(Frame)
       [] msg.t = "ret" /\ Frame.pc = "source" -> DoFinish(Frame)
       [] OTHER -> LoopHead("Foreach")

(***************************************************************************)
(* Functions (eval/functions.ts) and the builtins the model's programs use *)
(***************************************************************************)
FunctionDef(args, body, closure) == [args |-> args, body |-> body, closure |-> closure]

\* funcs.find((f) => f.args.length === arity)
FindArity(defs, arity) ==
  IF \E k \in 1..Len(defs) : Len(defs[k].args) = arity
  THEN <<defs[CHOOSE k \in 1..Len(defs) :
                 /\ Len(defs[k].args) = arity
                 /\ \A m \in 1..(k - 1) : Len(defs[m].args) # arity]>>
  ELSE << >>

RECURSIVE FindFunc(_, _, _, _, _)
\* The search of evalCall: frames from the top, the first definition of the
\* name with the call's arity.  << >> when there is none.
FindFunc(h, env, name, arity, i) ==
  IF i < 1 THEN << >>
  ELSE LET fs == h[env[i]].funcs
           found == IF name \in DOMAIN fs THEN FindArity(fs[name], arity) ELSE << >>
       IN IF found # << >> THEN found ELSE FindFunc(h, env, name, arity, i - 1)

RECURSIVE BindArgsGlobally(_, _, _, _, _)
\* A binding of the formals whose closure is the global frame alone
BindArgsGlobally(fs, formals, args, env, j) ==
  IF j > Len(args) THEN fs
  ELSE LET argName == formals[j]
           argDefs == IF argName \in DOMAIN fs THEN fs[argName] ELSE << >>
       IN BindArgsGlobally(MapSet(fs, argName,
                                  Append(argDefs, FunctionDef(<< >>, args[j], <<1>>))),
                           formals, args, env, j + 1)

RECURSIVE BindArgs(_, _, _, _, _)
\* newFrame.funcs after binding each formal to its argument filter, closed
\* over the environment of the call site
BindArgs(fs, formals, args, env, j) ==
  IF j > Len(args) THEN fs
  ELSE LET argName == formals[j]
           argDefs == IF argName \in DOMAIN fs THEN fs[argName] ELSE << >>
       IN BindArgs(MapSet(fs, argName, Append(argDefs, FunctionDef(<< >>, args[j], env))),
                   formals, args, env, j + 1)

EvalCall ==
  /\ At("evaluate", "Call")
  /\ Frame.pc \in {"go", "body"}
  /\ Keep
  /\ CASE msg.t = "go" ->
            LET node == Frame.node
                found == FindFunc(heap, Frame.env, node.name, Len(node.args), Len(Frame.env))
            IN IF found # << >>
               THEN LET def == found[1]
                        newFrame == EnvFrame(EmptyMap,
                                             BindArgs(EmptyMap, def.args, node.args,
                                                      Frame.env, 1))
                    IN DoSpawnH([Frame EXCEPT !.pc = "body", !.deleg = TRUE,
                                              !.c = Len(stack) + 1],
                                Child(def.body, Frame.input,
                                      Append(def.closure, Len(heap) + 1)),
                                Append(heap, newFrame))
               ELSE IF builtins(node.name) = {}
               THEN DoThrow(Frame, RuntimeError("Unknown function: " \o node.name))
               ELSE IF Len(node.args) \notin builtins(node.name)
               THEN DoThrow(Frame, RuntimeError("Function " \o node.name
                                                \o " does not accept "
                                                \o ToString(Len(node.args)) \o " arguments"))
               ELSE Set(Put([Frame EXCEPT !.pc = "apply"]), cur, [t |-> "apply"],
                        heap, steps, depth, outputs)
       [] msg.t = "ret" -> DoFinish(Frame)

\* evalDef: a new frame holds the definition, whose closure includes that
\* frame; then `next` runs under it.
EvalDef ==
  /\ At("evaluate", "Def")
  /\ Keep
  /\ CASE msg.t = "go" ->
            LET newStack == Append(Frame.env, Len(heap) + 1)
                funDef == FunctionDef(Frame.node.args, Frame.node.body, newStack)
            IN DoSpawnH([Frame EXCEPT !.pc = "next", !.deleg = TRUE, !.c = Len(stack) + 1],
                        Child(Frame.node.next, Frame.input, newStack),
                        Append(heap, EnvFrame(EmptyMap,
                                              MapSet(EmptyMap, Frame.node.name, <<funDef>>))))
       [] msg.t = "ret" -> DoFinish(Frame)

AtBuiltin(name) ==
  /\ At("evaluate", "Call")
  /\ Frame.pc \notin {"go", "body"}
  /\ Frame.node.name = name

\* empty/0 yields nothing
BuiltinEmpty ==
  /\ AtBuiltin("empty")
  /\ Keep
  /\ DoFinish(Frame)

\* error/1 throws on the first value of its argument (the programs of the
\* model raise string messages only)
BuiltinError ==
  /\ AtBuiltin("error")
  /\ Keep
  /\ CASE msg.t = "apply" ->
            DoSpawn([Frame EXCEPT !.pc = "arg", !.c = Len(stack) + 1],
                    Child(Frame.node.args[1], Frame.input, Frame.env))
       [] msg.t = "val" /\ msg.v.t = "string" -> DoThrow(Frame, RuntimeError(msg.v.v))
       [] msg.t = "ret" -> DoFinish(Frame)

\* select/1 emits the input at the first truthy result and returns
BuiltinSelect ==
  /\ AtBuiltin("select")
  /\ Keep
  /\ CASE msg.t = "apply" ->
            DoSpawn([Frame EXCEPT !.pc = "arg", !.c = Len(stack) + 1],
                    Child(Frame.node.args[1], Frame.input, Frame.env))
       [] msg.t = "val" ->
            IF isTruthy(msg.v) THEN DoEmitYield([Frame EXCEPT !.pc = "done"], Frame.input)
            ELSE DoResume(Frame, Frame.c)
       [] msg.t = "next" -> DoFinish(Frame)
       [] msg.t = "ret" -> DoFinish(Frame)

\* keys/0: the indices of an array, or Object.keys(input).sort()
BuiltinKeys ==
  /\ AtBuiltin("keys")
  /\ Keep
  /\ CASE msg.t = "apply" ->
            IF isValueArray(Frame.input)
            THEN DoEmitYield([Frame EXCEPT !.pc = "done"],
                             VArr([k \in 1..Len(Frame.input.v) |-> VNum(k - 1)]))
            ELSE IF isPlainObject(Frame.input)
            THEN LET sortedKeys == SortStrings(ObjKeys(Frame.input))
                 IN DoEmitYield([Frame EXCEPT !.pc = "done"],
                                VArr([k \in 1..Len(sortedKeys) |-> VStr(sortedKeys[k])]))
            ELSE DoThrow(Frame, RuntimeError("keys expects an array or object"))
       [] msg.t = "next" -> DoFinish(Frame)

\* keys_unsorted/0: the indices of an array, or Object.keys(input) as it is
BuiltinKeysUnsorted ==
  /\ AtBuiltin("keys_unsorted")
  /\ Keep
  /\ CASE msg.t = "apply" ->
            IF isValueArray(Frame.input)
            THEN DoEmitYield([Frame EXCEPT !.pc = "done"],
                             VArr([k \in 1..Len(Frame.input.v) |-> VNum(k - 1)]))
            ELSE IF isPlainObject(Frame.input)
            THEN LET keys == ObjKeys(Frame.input)
                 IN DoEmitYield([Frame EXCEPT !.pc = "done"],
                                VArr([k \in 1..Len(keys) |-> VStr(keys[k])]))
            ELSE DoThrow(Frame, RuntimeError("keys_unsorted expects an array or object"))
       [] msg.t = "next" -> DoFinish(Frame)

\* Math.sqrt on the numbers of the model: NaN below zero, the root of a
\* perfect square
MathSqrt(x) ==
  IF isNaN(x) \/ x.v < 0 THEN NaN
  ELSE VNum(CHOOSE k \in 0..x.v : k * k = x.v)

\* sqrt/0
BuiltinSqrt ==
  /\ AtBuiltin("sqrt")
  /\ Keep
  /\ CASE msg.t = "apply" ->
            IF Frame.input.t # "number"
            THEN DoThrow(Frame, RuntimeError("sqrt expects number"))
            ELSE DoEmitYield([Frame EXCEPT !.pc = "done"], MathSqrt(Frame.input))
       [] msg.t = "next" -> DoFinish(Frame)

\* The test of range's for loop: i < end when step > 0, else i > end
RangeCond(g) ==
  IF NumLess(VNum(0), g.step) THEN NumLess(g.i, g.end) ELSE NumLess(g.end, g.i)

\* The loops `for (const start of starts) for (const end of ends) for (const
\* step of steps)`: the indices of the round after (a, b, s)
RangeAdvance(g) ==
  IF g.s < Len(g.steps) THEN [g EXCEPT !.s = g.s + 1]
  ELSE IF g.b < Len(g.ends) THEN [g EXCEPT !.s = 1, !.b = g.b + 1]
  ELSE [g EXCEPT !.s = 1, !.b = 1, !.a = g.a + 1]

\* range/1 iterates the generator of its ends; range/2 and range/3 collect
\* starts, ends (and steps) with Array.from first.  range/2 is the loop of
\* range/3 with step 1: `if (start < end) for (i = start; i < end; i++)`.
\* acc holds the lists, the indices of the round and the loop's i, end and
\* step; each emitted i goes through emit.
BuiltinRange ==
  /\ AtBuiltin("range")
  /\ Keep
  /\ LET n == Len(Frame.node.args)
         g == Frame.acc
         again(f) == Set(Put(f), cur, [t |-> "apply"], heap, steps, depth, outputs)
         arg(k) == Child(Frame.node.args[k], Frame.input, Frame.env)
         rounds(f) == again([f EXCEPT !.pc = "round"])
     IN CASE msg.t = "apply" /\ Frame.pc = "apply" ->
               LET g0 == [starts |-> << >>, ends |-> << >>, steps |-> <<VNum(1)>>,
                          a |-> 1, b |-> 1, s |-> 1,
                          i |-> VNum(0), end |-> VNum(0), step |-> VNum(1)]
               IN DoSpawn([Frame EXCEPT !.pc = IF n = 1 THEN "end" ELSE "starts",
                                        !.acc = g0, !.c = Len(stack) + 1],
                          arg(1))
          [] msg.t = "val" /\ Frame.pc = "end" ->
               IF msg.v.t # "number" THEN DoThrow(Frame, RuntimeError("range expects numbers"))
               ELSE again([Frame EXCEPT !.pc = "test", !.acc.i = VNum(0), !.acc.end = msg.v])
          [] msg.t = "ret" /\ Frame.pc = "end" -> DoFinish(Frame)
          [] msg.t = "val" /\ Frame.pc = "starts" ->
               DoResume([Frame EXCEPT !.acc.starts = Append(g.starts, msg.v)], Frame.c)
          [] msg.t = "ret" /\ Frame.pc = "starts" ->
               DoSpawn([Frame EXCEPT !.pc = "ends", !.c = Len(stack) + 1], arg(2))
          [] msg.t = "val" /\ Frame.pc = "ends" ->
               DoResume([Frame EXCEPT !.acc.ends = Append(g.ends, msg.v)], Frame.c)
          [] msg.t = "ret" /\ Frame.pc = "ends" ->
               IF n = 3
               THEN DoSpawn([Frame EXCEPT !.pc = "steps", !.acc.steps = << >>,
                                          !.c = Len(stack) + 1], arg(3))
               ELSE rounds(Frame)
          [] msg.t = "val" /\ Frame.pc = "steps" ->
               DoResume([Frame EXCEPT !.acc.steps = Append(g.steps, msg.v)], Frame.c)
          [] msg.t = "ret" /\ Frame.pc = "steps" -> rounds(Frame)
          [] msg.t = "apply" /\ Frame.pc = "round" ->
               IF g.a > Len(g.starts) \/ g.ends = << >> \/ g.steps = << >> THEN DoFinish(Frame)
               ELSE LET start == g.starts[g.a]
                        end == g.ends[g.b]
                        step == g.steps[g.s]
                    IN IF start.t # "number" \/ end.t # "number" \/ step.t # "number"
                       THEN DoThrow(Frame, RuntimeError("range expects numbers"))
                       ELSE IF StrictEq(step, VNum(0))
                       THEN DoThrow(Frame, RuntimeError("range step cannot be zero"))
                       ELSE again([Frame EXCEPT !.pc = "test", !.acc.i = start,
                                                !.acc.end = end, !.acc.step = step])
          [] msg.t = "apply" /\ Frame.pc = "test" ->
               IF RangeCond(g) THEN DoEmitYield([Frame EXCEPT !.pc = "loop"], g.i)
               ELSE IF n = 1 THEN DoResume([Frame EXCEPT !.pc = "end"], Frame.c)
               ELSE again([Frame EXCEPT !.pc = "round", !.acc = RangeAdvance(g)])
          [] msg.t = "next" /\ Frame.pc = "loop" ->
               again([Frame EXCEPT !.pc = "test", !.acc.i = NumAdd(g.i, g.step)])

\* last/1: the values of the argument are consumed, the last one is yielded
\* as it is
BuiltinLast ==
  /\ AtBuiltin("last")
  /\ Keep
  /\ CASE msg.t = "apply" ->
            DoSpawn([Frame EXCEPT !.pc = "arg", !.j = 0, !.c = Len(stack) + 1],
                    Child(Frame.node.args[1], Frame.input, Frame.env))
       [] msg.t = "val" -> DoResume([Frame EXCEPT !.acc = msg.v, !.j = 1], Frame.c)
       [] msg.t = "ret" ->
            IF Frame.j = 1 THEN DoYield([Frame EXCEPT !.pc = "done"], Frame.acc)
            ELSE DoFinish(Frame)
       [] msg.t = "next" -> DoFinish(Frame)

\* recurse/1: yield* rec(input)
BuiltinRecurse ==
  /\ AtBuiltin("recurse")
  /\ Keep
  /\ CASE msg.t = "apply" ->
            DoSpawn([Frame EXCEPT !.pc = "rec", !.deleg = TRUE, !.c = Len(stack) + 1],
                    NewFrame("rec", Frame.node, Frame.input, Frame.env, cur))
       [] msg.t = "ret" -> DoFinish(Frame)

\* rec(curr) of recurse/1: emit curr, then yield* rec(next) for each next of
\* evaluate(args[0], curr).  i is the generator of the nexts.
RecurseBy ==
  /\ Running
  /\ Frame.gen = "rec"
  /\ ~Delegating
  /\ msg.t # "err"
  /\ Keep
  /\ CASE msg.t = "start" -> DoEmitYield([Frame EXCEPT !.pc = "emitted"], Frame.input)
       [] msg.t = "next" ->
            DoSpawn([Frame EXCEPT !.pc = "nexts", !.i = Len(stack) + 1],
                    Child(Frame.node.args[1], Frame.input, Frame.env))
       [] msg.t = "val" ->
            DoSpawn([Frame EXCEPT !.deleg = TRUE, !.c = Len(stack) + 1],
                    NewFrame("rec", Frame.node, msg.v, Frame.env, cur))
       [] msg.t = "ret" /\ Frame.deleg ->
            DoResume([Frame EXCEPT !.deleg = FALSE], Frame.i)
       [] msg.t = "ret" /\ ~Frame.deleg -> DoFinish(Frame)

\* { key: k, value: v }
Entry(k, v) == VObj(<< <<"key", k>>, <<"value", v>> >>)

\* to_entries/0: one entry per index, or per key of Object.keys(input).sort()
BuiltinToEntries ==
  /\ AtBuiltin("to_entries")
  /\ Keep
  /\ CASE msg.t = "apply" ->
            IF isValueArray(Frame.input)
            THEN DoEmitYield([Frame EXCEPT !.pc = "done"],
                             VArr([k \in 1..Len(Frame.input.v) |->
                                     Entry(VNum(k - 1), Frame.input.v[k])]))
            ELSE IF isPlainObject(Frame.input)
            THEN LET keys == SortStrings(ObjKeys(Frame.input))
                 IN DoEmitYield([Frame EXCEPT !.pc = "done"],
                                VArr([k \in 1..Len(keys) |->
                                        Entry(VStr(keys[k]), ObjGet(Frame.input, keys[k]))]))
            ELSE DoThrow(Frame, RuntimeError("to_entries expects array or object"))
       [] msg.t = "next" -> DoFinish(Frame)

\* A limit that never counts its argument as exhausted
limitNeverReached(count, n) == FALSE

\* if (count >= n) break
limitReached(count, n) == count >= n

\* limit/2: for each n of args[0], the values of args[1] are yielded as they
\* are (the inner evaluate has emitted them) until count reaches n; leaving
\* the loop closes the generator of args[1].  i is the generator of the
\* limits, c that of the expression, j is `count`, acc is `n`.
BuiltinLimit ==
  /\ AtBuiltin("limit")
  /\ Keep
  /\ CASE msg.t = "apply" ->
            DoSpawn([Frame EXCEPT !.pc = "limits", !.i = Len(stack) + 1],
                    Child(Frame.node.args[1], Frame.input, Frame.env))
       [] msg.t = "val" /\ Frame.pc = "limits" ->
            IF msg.v.t # "number" THEN DoThrow(Frame, RuntimeError("limit expects number"))
            ELSE IF msg.v.v > 0
            THEN DoSpawn([Frame EXCEPT !.pc = "expr", !.acc = msg.v, !.j = 0,
                                       !.c = Len(stack) + 1],
                         Child(Frame.node.args[2], Frame.input, Frame.env))
            ELSE DoResume(Frame, Frame.i)
       [] msg.t = "val" /\ Frame.pc = "expr" -> DoYield(Frame, msg.v)
       [] msg.t = "next" ->
            LET f == [Frame EXCEPT !.j = Frame.j + 1] IN
            IF limitReached(f.j, f.acc.v)
            THEN LET fin == Finalize(stack, Len(stack), f.c, [heap |-> heap, depth |-> depth])
                 IN Set(SubSeq(Put([f EXCEPT !.pc = "limits"]), 1, f.c - 1), f.i, Resumed,
                        fin.heap, steps, fin.depth, outputs)
            ELSE DoResume(f, f.c)
       [] msg.t = "ret" /\ Frame.pc = "expr" ->
            DoResume([Frame EXCEPT !.pc = "limits"], Frame.i)
       [] msg.t = "ret" /\ Frame.pc = "limits" -> DoFinish(Frame)

isPath(val) ==
  /\ isValueArray(val)
  /\ \A k \in 1..Len(val.v) :
       \/ val.v[k].t \in {"string", "number"}
       \/ /\ isPlainObject(val.v[k])
          /\ (ObjHas(val.v[k], "start") \/ ObjHas(val.v[k], "end"))

\* getpath/1: for each path value, emit getPath(input, path) ?? null
BuiltinGetpath ==
  /\ AtBuiltin("getpath")
  /\ Keep
  /\ CASE msg.t = "apply" ->
            DoSpawn([Frame EXCEPT !.pc = "arg", !.c = Len(stack) + 1],
                    Child(Frame.node.args[1], Frame.input, Frame.env))
       [] msg.t = "val" ->
            IF ~isPath(msg.v)
            THEN DoThrow(Frame, RuntimeError(
                   "Path must be an array of strings, integers, or slice objects"))
            ELSE DoEmitYield(Frame, OrNull(getPath(Frame.input, msg.v.v)))
       [] msg.t = "next" -> DoResume(Frame, Frame.c)
       [] msg.t = "ret" -> DoFinish(Frame)

\* path/1: for (const p of evaluatePath(args[0], input, ...)) yield emit(p)
BuiltinPath ==
  /\ AtBuiltin("path")
  /\ Keep
  /\ CASE msg.t = "apply" ->
            DoSpawn([Frame EXCEPT !.pc = "arg", !.c = Len(stack) + 1],
                    NewFrame("evaluatePath", Frame.node.args[1], Frame.input, Frame.env, cur))
       [] msg.t = "val" -> DoEmitYield(Frame, VArr(msg.v))
       [] msg.t = "next" -> DoResume(Frame, Frame.c)
       [] msg.t = "ret" -> DoFinish(Frame)

(***************************************************************************)
(* evaluatePath (eval/path_eval.ts): the paths a filter addresses.  A path *)
(* travels between frames as a sequence of segments.                       *)
(***************************************************************************)
AtPath(kind) ==
  /\ Running
  /\ Frame.gen = "evaluatePath"
  /\ Frame.node.kind = kind
  /\ ~Delegating
  /\ msg.t # "err"

PathChild(node, inp, env) == NewFrame("evaluatePath", node, inp, env, cur)

\* The next pending path of a frame that iterates no generator any more
YieldRest(f) ==
  IF f.vals = << >> THEN DoFinish(f)
  ELSE IF Head(f.vals).ok THEN DoYield([f EXCEPT !.vals = Tail(f.vals)], Head(f.vals).v)
  ELSE DoThrow(f, RuntimeError(Head(f.vals).msg))

PathIdentity ==
  /\ AtPath("Identity")
  /\ Keep
  /\ CASE msg.t = "start" -> DoYield([Frame EXCEPT !.pc = "done"], << >>)
       [] msg.t = "next" -> DoFinish(Frame)

PathFieldAccess ==
  /\ AtPath("FieldAccess")
  /\ Keep
  /\ CASE msg.t = "start" ->
            DoSpawn([Frame EXCEPT !.pc = "target", !.c = Len(stack) + 1],
                    PathChild(Frame.node.target, Frame.input, Frame.env))
       [] msg.t = "val" -> DoYield(Frame, Append(msg.v, VStr(Frame.node.field)))
       [] msg.t = "next" -> DoResume(Frame, Frame.c)
       [] msg.t = "ret" -> DoFinish(Frame)

\* The parent paths are collected, then each key of the index filter is
\* appended to every parent.
PathIndexAccess ==
  /\ AtPath("IndexAccess")
  /\ Keep
  /\ LET pending(f) == IF f.vals = << >> THEN DoResume(f, f.c)
                       ELSE DoYield([f EXCEPT !.vals = Tail(f.vals)], Head(f.vals))
     IN CASE msg.t = "start" ->
               DoSpawn([Frame EXCEPT !.pc = "parents", !.c = Len(stack) + 1],
                       PathChild(Frame.node.target, Frame.input, Frame.env))
          [] msg.t = "val" /\ Frame.pc = "parents" ->
               DoResume([Frame EXCEPT !.aux = Append(Frame.aux, msg.v)], Frame.c)
          [] msg.t = "ret" /\ Frame.pc = "parents" ->
               DoSpawn([Frame EXCEPT !.pc = "index", !.c = Len(stack) + 1],
                       Child(Frame.node.index, Frame.input, Frame.env))
          [] msg.t = "val" /\ Frame.pc = "index" ->
               IF msg.v.t \notin {"string", "number"}
               THEN DoThrow(Frame, RuntimeError("Path index must be string or integer"))
               ELSE pending([Frame EXCEPT !.vals = [k \in 1..Len(Frame.aux) |->
                                                      Append(Frame.aux[k], msg.v)]])
          [] msg.t = "next" -> pending(Frame)
          [] msg.t = "ret" /\ Frame.pc = "index" -> DoFinish(Frame)

\* The left paths are collected; the right side is resolved against the
\* value at each of them.
PathPipe ==
  /\ AtPath("Pipe")
  /\ Keep
  /\ LET nextLeft(f) ==
           IF f.i >= Len(f.aux) THEN DoFinish(f)
           ELSE DoSpawn([f EXCEPT !.pc = "right", !.i = f.i + 1, !.c = Len(stack) + 1],
                        PathChild(f.node.right, OrNull(getPath(f.input, f.aux[f.i + 1])),
                                  f.env))
     IN CASE msg.t = "start" ->
               DoSpawn([Frame EXCEPT !.pc = "left", !.c = Len(stack) + 1],
                       PathChild(Frame.node.left, Frame.input, Frame.env))
          [] msg.t = "val" /\ Frame.pc = "left" ->
               DoResume([Frame EXCEPT !.aux = Append(Frame.aux, msg.v)], Frame.c)
          [] msg.t = "ret" /\ Frame.pc = "left" -> nextLeft(Frame)
          [] msg.t = "val" /\ Frame.pc = "right" ->
               DoYield(Frame, Frame.aux[Frame.i] \o msg.v)
          [] msg.t = "next" -> DoResume(Frame, Frame.c)
          [] msg.t = "ret" /\ Frame.pc = "right" -> nextLeft(Frame)

PathComma ==
  /\ AtPath("Comma")
  /\ Keep
  /\ CASE msg.t = "start" ->
            DoSpawn([Frame EXCEPT !.pc = "left", !.deleg = TRUE, !.c = Len(stack) + 1],
                    PathChild(Frame.node.left, Frame.input, Frame.env))
       [] msg.t = "ret" /\ Frame.pc = "left" ->
            DoSpawn([Frame EXCEPT !.pc = "right", !.deleg = TRUE, !.c = Len(stack) + 1],
                    PathChild(Frame.node.right, Frame.input, Frame.env))
       [] msg.t = "ret" /\ Frame.pc = "right" -> DoFinish(Frame)

\* The paths below one parent: the indices of an array, the keys of an
\* object in Object.keys order, nothing for null, a throw otherwise.
iteratePaths(inp, p) ==
  LET val == getPath(inp, p) IN
  IF isValueArray(val) THEN [k \in 1..Len(val.v) |-> Ok(Append(p, VNum(k - 1)))]
  ELSE IF isPlainObject(val) THEN [k \in 1..Len(val.v) |-> Ok(Append(p, VStr(ObjKeys(val)[k])))]
  ELSE IF val = VNull THEN << >>
  ELSE <<Fail("Cannot iterate over " \o val.t)>>

RECURSIVE iterateAll(_, _, _)
iterateAll(inp, parentPaths, k) ==
  IF k > Len(parentPaths) THEN << >>
  ELSE iteratePaths(inp, parentPaths[k]) \o iterateAll(inp, parentPaths, k + 1)

PathIterate ==
  /\ AtPath("Iterate")
  /\ Keep
  /\ CASE msg.t = "start" ->
            DoSpawn([Frame EXCEPT !.pc = "parents", !.c = Len(stack) + 1],
                    PathChild(Frame.node.target, Frame.input, Frame.env))
       [] msg.t = "val" ->
            DoResume([Frame EXCEPT !.aux = Append(Frame.aux, msg.v)], Frame.c)
       [] msg.t = "ret" ->
            YieldRest([Frame EXCEPT !.pc = "emit",
                                    !.vals = iterateAll(Frame.input, Frame.aux, 1)])
       [] msg.t = "next" -> YieldRest(Frame)

\* select(cond) in a path: all of cond's values are read; the empty path
\* is yielded once if any was truthy.  Any other call throws.
PathCall ==
  /\ AtPath("Call")
  /\ Keep
  /\ CASE msg.t = "start" /\ Frame.node.name # "select" ->
            DoThrow(Frame, RuntimeError("Function " \o Frame.node.name
                                        \o " not supported in path expression"))
       [] msg.t = "start" /\ Frame.node.name = "select" ->
            DoSpawn([Frame EXCEPT !.pc = "conds", !.acc = VBool(FALSE), !.c = Len(stack) + 1],
                    Child(Frame.node.args[1], Frame.input, Frame.env))
       [] msg.t = "val" ->
            DoResume([Frame EXCEPT !.acc = IF isTruthy(msg.v) THEN VBool(TRUE) ELSE Frame.acc],
                     Frame.c)
       [] msg.t = "ret" ->
            IF Frame.acc = VBool(TRUE) THEN DoYield([Frame EXCEPT !.pc = "done"], << >>)
            ELSE DoFinish(Frame)
       [] msg.t = "next" -> DoFinish(Frame)

PathKinds == {"Identity", "FieldAccess", "IndexAccess", "Pipe", "Comma", "Iterate", "Call"}

\* default: throw new RuntimeError('Invalid path expression')
PathInvalid ==
  /\ Running
  /\ Frame.gen = "evaluatePath"
  /\ Frame.node.kind \notin PathKinds
  /\ msg.t = "start"
  /\ Keep
  /\ DoThrow(Frame, RuntimeError("Invalid path expression"))

(***************************************************************************)
(* Assignment (eval/assignment.ts)                                         *)
(***************************************************************************)
RECURSIVE setAll(_, _, _, _)
\* let current = input; for (const path of paths) current = updatePath(...)
setAll(current, paths, k, rhsVal) ==
  IF k > Len(paths) THEN Ok(current)
  ELSE LET r == updatePath(current, paths[k], rhsVal)
       IN IF r.ok THEN setAll(r.v, paths, k + 1, rhsVal) ELSE r

\* applyUpdates(current, paths, index, ...) as a frame: acc is `current`,
\* aux is `paths`, i is `index`, input is `contextInput`.
Updates(node, current, paths, index, contextInput, env) ==
  [NewFrame("applyUpdates", node, contextInput, env, cur)
     EXCEPT !.acc = current, !.aux = paths, !.i = index]

EvalAssignment ==
  /\ At("evaluate", "Assignment")
  /\ Keep
  /\ CASE msg.t = "go" ->
            DoSpawn([Frame EXCEPT !.pc = "paths", !.c = Len(stack) + 1],
                    PathChild(Frame.node.left, Frame.input, Frame.env))
       [] msg.t = "val" /\ Frame.pc = "paths" ->
            DoResume([Frame EXCEPT !.aux = Append(Frame.aux, msg.v)], Frame.c)
       [] msg.t = "ret" /\ Frame.pc = "paths" ->
            LET paths == SortPathsDesc(Frame.aux) IN
            IF paths = << >> THEN DoEmitYield([Frame EXCEPT !.pc = "emit"], Frame.input)
            ELSE IF Frame.node.op = "="
            THEN DoSpawn([Frame EXCEPT !.pc = "rhs", !.aux = paths, !.c = Len(stack) + 1],
                         Child(Frame.node.right, Frame.input, Frame.env))
            ELSE DoSpawn([Frame EXCEPT !.pc = "updates", !.aux = paths, !.deleg = TRUE,
                                       !.c = Len(stack) + 1],
                         Updates(Frame.node, Frame.input, paths, 0, Frame.input, Frame.env))
       [] msg.t = "val" /\ Frame.pc = "rhs" ->
            DoResume([Frame EXCEPT !.vals = Append(Frame.vals, msg.v)], Frame.c)
       [] msg.t = "ret" /\ Frame.pc = "rhs" ->
            EmitRest([Frame EXCEPT !.pc = "emit",
                                   !.vals = [k \in 1..Len(Frame.vals) |->
                                               setAll(Frame.input, Frame.aux, 1,
                                                      Frame.vals[k])]])
       [] msg.t = "next" -> EmitRest(Frame)
       [] msg.t = "ret" /\ Frame.pc = "updates" -> DoFinish(Frame)

\* The new value of an update operator for one right-hand value
updateValue(op, oldValue, rhs) ==
  IF op = "+=" THEN applyBinaryOp("+", oldValue, rhs)
  ELSE IF op = "//=" THEN Ok(IF oldValue # VNull /\ oldValue # VBool(FALSE) THEN oldValue ELSE rhs)
  ELSE Fail("Unknown assignment op: " \o op)

RECURSIVE updateValues(_, _, _, _)
\* newValues for a sugar operator; a throw of applyBinaryOp ends the loop
updateValues(op, oldValue, rhsResults, k) ==
  IF k > Len(rhsResults) THEN Ok(<< >>)
  ELSE LET res == updateValue(op, oldValue, rhsResults[k])
           rest == updateValues(op, oldValue, rhsResults, k + 1)
       IN IF ~res.ok THEN res
          ELSE IF ~rest.ok THEN rest
          ELSE Ok(<<res.v>> \o rest.v)

\* applyUpdates: one path per frame; the frame for index + 1 is delegated to
\* once per new value, or once on the structure with the path deleted when
\* there is no new value.
ApplyUpdates ==
  /\ Running
  /\ Frame.gen = "applyUpdates"
  /\ ~Delegating
  /\ msg.t # "err"
  /\ Keep
  /\ LET path == Frame.aux[Frame.i + 1]
         recurse(f, nextObject) ==
           DoSpawn([f EXCEPT !.deleg = TRUE, !.c = Len(stack) + 1],
                   Updates(f.node, nextObject, f.aux, f.i + 1, f.input, f.env))
         nextValue(f) ==
           IF f.j >= Len(f.vals) THEN DoFinish(f)
           ELSE LET nextObject == updatePath(f.acc, path, f.vals[f.j + 1])
                IN IF nextObject.ok
                   THEN recurse([f EXCEPT !.pc = "each", !.j = f.j + 1], nextObject.v)
                   ELSE DoThrow(f, RuntimeError(nextObject.msg))
     IN CASE msg.t = "start" /\ Frame.i >= Len(Frame.aux) ->
               DoYield([Frame EXCEPT !.pc = "done"], Frame.acc)
          [] msg.t = "next" -> DoFinish(Frame)
          [] msg.t = "start" /\ Frame.i < Len(Frame.aux) ->
               DoSpawn([Frame EXCEPT !.pc = "rhs", !.c = Len(stack) + 1],
                       Child(Frame.node.right,
                             IF Frame.node.op = "|=" THEN OrNull(getPath(Frame.acc, path))
                             ELSE Frame.input,
                             Frame.env))
          [] msg.t = "val" ->
               DoResume([Frame EXCEPT !.vals = Append(Frame.vals, msg.v)], Frame.c)
          [] msg.t = "ret" /\ Frame.pc = "rhs" ->
               LET newValues ==
                     IF Frame.node.op = "|=" THEN Ok(Frame.vals)
                     ELSE updateValues(Frame.node.op, OrNull(getPath(Frame.acc, path)),
                                       Frame.vals, 1)
               IN IF ~newValues.ok THEN DoThrow(Frame, RuntimeError(newValues.msg))
                  ELSE IF newValues.v = << >>
                  THEN recurse([Frame EXCEPT !.pc = "tail"],
                               deletePaths(Frame.acc, <<path>>))
                  ELSE nextValue([Frame EXCEPT !.vals = newValues.v])
          [] msg.t = "ret" /\ Frame.pc = "tail" -> DoFinish(Frame)
          [] msg.t = "ret" /\ Frame.pc = "each" -> nextValue([Frame EXCEPT !.deleg = FALSE])

(***************************************************************************)
(* The interpreter                                                         *)
(***************************************************************************)
Next ==
  \/ Validate
  \/ DriverCollect
  \/ DriverDone
  \/ DriverFault
  \/ RunAgain
  \/ Enter
  \/ PassUp
  \/ PassDown
  \/ Propagate
  \/ EvalIdentity
  \/ EvalLiteral
  \/ EvalVar
  \/ EvalFieldAccess
  \/ EvalIndexAccess
  \/ EvalIterate
  \/ EvalArray
  \/ EvalObject
  \/ FillObject
  \/ EvalPipe
  \/ EvalComma
  \/ EvalBinary
  \/ EvalTry
  \/ EvalLabel
  \/ EvalBreak
  \/ EvalReduce
  \/ EvalForeach
  \/ EvalAs
  \/ EvalCall
  \/ EvalDef
  \/ BuiltinEmpty
  \/ BuiltinError
  \/ BuiltinSelect
  \/ BuiltinLimit
  \/ BuiltinKeys
  \/ BuiltinKeysUnsorted
  \/ BuiltinSqrt
  \/ BuiltinRange
  \/ BuiltinLast
  \/ BuiltinRecurse
  \/ RecurseBy
  \/ BuiltinToEntries
  \/ EvalRecurse
  \/ RecurseInto
  \/ BuiltinGetpath
  \/ BuiltinPath
  \/ EvalAssignment
  \/ ApplyUpdates
  \/ PathIdentity
  \/ PathFieldAccess
  \/ PathIndexAccess
  \/ PathPipe
  \/ PathComma
  \/ PathIterate
  \/ PathCall
  \/ PathInvalid

(***************************************************************************)
(* Runs.  A run is run(ast, input, options): the filter a program text     *)
(* parses to, the input value, the limits and the global variables.        *)
(***************************************************************************)
Limits(s, d, o) == [maxSteps |-> s, maxDepth |-> d, maxOutputs |-> o]
RunWith(node, inp, lim, vs) == [ast |-> node, input |-> inp, limits |-> lim, vars |-> vs]
Run(node, inp) == RunWith(node, inp, DEFAULT_LIMITS, EmptyMap)

Num(n) == Literal(VNum(n))
Idx(n) == IndexAccess(Identity, Num(n))
Dot(field) == FieldAccess(Identity, field)
Each == Iterate(Identity)
Empty == Call("empty", << >>)
Select(cond) == Call("select", <<cond>>)
Plus(left, right) == Binary("+", left, right)

\* [0, 1, .., n-1]
Arr(n) == VArr([k \in 1..n |-> VNum(k - 1)])
ObjA == VObj(<< <<"a", VNum(1)>> >>)
ObjBA == VObj(<< <<"b", VNum(1)>>, <<"a", Arr(2)>> >>)
ObjAB == VObj(<< <<"a", VObj(<< <<"b", VNum(1)>>, <<"c", VNum(2)>> >>)>>, <<"b", VNum(2)>> >>)
X9 == [x |-> VNum(9)]

\* $x, (reduce (1, 2) as $x (0; . + $x)), $x
ReduceShadow ==
  Comma(Var("x"),
        Comma(Reduce(Comma(Num(1), Num(2)), "x", Num(0), Plus(Identity, Var("x"))),
              Var("x")))

\* [$x, (foreach (1, 2) as $x (0; . + $x; .)), $x]
ForeachShadow ==
  Array(<<Comma(Var("x"),
                Comma(Foreach(Comma(Num(1), Num(2)), "x", Num(0), Plus(Identity, Var("x")),
                              Identity),
                      Var("x")))>>)

\* reduce (1, 2) as $x (0; . + (reduce (10, 20) as $x (0; . + $x)) + $x)
NestedReduce ==
  Reduce(Comma(Num(1), Num(2)), "x", Num(0),
         Plus(Plus(Identity,
                   Reduce(Comma(Num(10), Num(20)), "x", Num(0), Plus(Identity, Var("x")))),
              Var("x")))

\* [path(f) as $p | getpath($p)], [f]
PathLaw(f) ==
  Comma(Array(<<As(Call("path", <<f>>), "p", Call("getpath", <<Var("p")>>))>>), Array(<<f>>))

\* [e?], [try e]
QuestionVsTry(e) == Comma(Array(<<PostfixQuestion(e)>>), Array(<<Try(e, NoNode)>>))

Str(s) == Literal(VStr(s))
Inc == Plus(Identity, Num(1))
Ref(name) == Call(name, << >>)

\* {a: 1, ("a","b"): 2}
OverwritingObject ==
  Object(<<ObjectEntry(KeyIdentifier("a"), Num(1)),
           ObjectEntry(KeyExpr(Comma(Str("a"), Str("b"))), Num(2))>>)

\* {a: (1,2), b: (10,20)}
ProductObject ==
  Object(<<ObjectEntry(KeyIdentifier("a"), Comma(Num(1), Num(2))),
           ObjectEntry(KeyIdentifier("b"), Comma(Num(10), Num(20)))>>)

\* Programs that between them use every construct of the model.
CoreScenarios ==
  { Run(Pipe(Each, Comma(Identity, Num(7))), Arr(3)),
    Run(OverwritingObject, VNull),
    Run(Comma(Ref("keys"), Comma(Ref("keys_unsorted"), Comma(Ref("to_entries"), Recurse))),
        ObjBA),
    Run(Call("limit", <<Comma(Num(0), Num(2)), Each>>), Arr(3)),
    Run(Ref("sqrt"), VNum(4)),
    Run(Call("last", <<Call("range", <<Num(2)>>)>>), VNull),
    Run(Call("range", <<Num(0), Comma(Num(1), Num(2))>>), VNull),
    Run(Call("limit", <<Num(2), Call("recurse", <<Inc>>)>>), VNum(0)),
    RunWith(ReduceShadow, VNull, DEFAULT_LIMITS, X9),
    RunWith(ForeachShadow, VNull, DEFAULT_LIMITS, X9),
    RunWith(NestedReduce, VNull, DEFAULT_LIMITS, X9),
    Run(Foreach(Each, "y", Num(0), Plus(Identity, Var("y")), NoNode), Arr(3)),
    Run(PathLaw(Pipe(Dot("a"), Each)), ObjBA),
    Run(PathLaw(Comma(Idx(-1), Pipe(Each, Select(Identity)))), Arr(3)),
    Run(Call("path", <<Num(1)>>), VNull),
    Run(Try(Call("error", <<Literal(VStr("c"))>>), Identity), VNull),
    Run(QuestionVsTry(Comma(Num(1), Dot("a"))), VNum(1)),
    Run(Label("a", Comma(Identity, Break("a"))), VNum(1)),
    Run(Label("a", Comma(Identity, Break("b"))), VNum(1)),
    Run(Def("f", <<"g">>, Comma(Call("g", << >>), Call("g", << >>)), Call("f", <<Idx(1)>>)),
        Arr(3)),
    Run(Def("f", <<"g">>, Call("g", << >>), Call("f", << >>)), Arr(3)),
    Run(Iterate(Call("foo", << >>)), Arr(3)),
    Run(Call("foo", << >>), Arr(3)),
    Run(Assignment("|=", Dot("a"), Empty), ObjA),
    Run(Assignment("|=", Each, Plus(Identity, Num(1))), Arr(3)),
    Run(Assignment("=", Comma(Dot("a"), Dot("c")), Comma(Num(1), Num(2))), ObjBA),
    RunWith(Try(Pipe(Pipe(Identity, Identity), Identity), Identity), VNull,
            Limits(DefaultMaxSteps, 3, DefaultMaxOutputs), EmptyMap),
    RunWith(Pipe(Each, Try(Comma(Identity, Identity), NoNode)), Arr(3),
            Limits(9, DefaultMaxDepth, DefaultMaxOutputs), EmptyMap) }

\* e? against try e, for filters that fault on some of the inputs
FaultyFilters == {Dot("a"), Comma(Num(1), Dot("a")), Each, Pipe(Each, Dot("a")),
                  Call("error", <<Literal(VStr("c"))>>)}

QuestionScenarios ==
  {Run(QuestionVsTry(e), v) : e \in FaultyFilters, v \in {VNum(1), ObjA, Arr(2)}}

\* The uses the validator is to reject, and the places of a filter they are put in
ForbiddenUses ==
  {Call(n, << >>) : n \in {"now", "input", "inputs", "env", "import", "include"}}
    \cup {Var("ENV")}

Places == {"top", "iterate target", "call argument", "def body", "pipe", "array item"}

Place(where, use) ==
  CASE where = "top" -> use
    [] where = "iterate target" -> Iterate(use)
    [] where = "call argument" -> Select(use)
    [] where = "def body" -> Def("f", << >>, use, Call("f", << >>))
    [] where = "pipe" -> Pipe(Identity, use)
    [] where = "array item" -> Array(<<use>>)

ForbiddenPrograms == {Place(where, use) : where \in Places, use \in ForbiddenUses}

ForbiddenScenarios == {Run(f, Arr(2)) : f \in ForbiddenPrograms}

\* Calls of names that are neither defined nor builtins of that arity
UnknownCalls == {Call("foo", << >>), Call("empty", <<Identity>>), Call("select", << >>)}

UnknownCallPrograms ==
  {Place(where, use) : where \in Places, use \in UnknownCalls}
    \cup {Def("f", <<"g">>, Call("g", << >>), Call("f", << >>))}

UnknownCallScenarios == {Run(f, Arr(2)) : f \in UnknownCallPrograms}

\* break $b with no label $b around it
UnmatchedBreakPrograms ==
  { Break("b"),
    Label("a", Break("b")),
    Label("a", Comma(Identity, Break("b"))),
    Pipe(Label("b", Identity), Break("b")),
    Try(Break("b"), Identity) }

UnmatchedBreakScenarios == {Run(f, VNum(1)) : f \in UnmatchedBreakPrograms}

\* Object constructions of literal keys and values
ObjectKeys == {KeyIdentifier("a"), KeyString("b"), KeyExpr(Comma(Str("a"), Str("b"))),
               KeyExpr(Comma(Str("b"), Str("a")))}

ObjectPrograms ==
  {Object(<<ObjectEntry(k1, v1), ObjectEntry(k2, v2)>>) :
     k1 \in ObjectKeys, k2 \in ObjectKeys,
     v1 \in {Num(1), Comma(Num(1), Num(2))}, v2 \in {Num(3), Comma(Num(3), Num(4))}}
    \cup {OverwritingObject, ProductObject,
          Object(<<ObjectEntry(KeyIdentifier("a"), Num(1)),
                   ObjectEntry(KeyIdentifier("b"), Num(2)),
                   ObjectEntry(KeyExpr(Comma(Str("a"), Str("c"))), Num(3))>>)}

ObjectScenarios == {Run(f, VNull) : f \in ObjectPrograms}

\* Slices used as paths: path(.[a:b]), path(.a[a:b]) and .[a:b] = [7]
SliceEnds == {NoNode, Num(0), Num(1)}

SlicePathOf(target) == {Call("path", <<Slice(target, a, b)>>) : a \in SliceEnds, b \in SliceEnds}

SliceAssignments ==
  {Assignment("=", Slice(Identity, a, b), Literal(VArr(<<VNum(7)>>))) :
     a \in SliceEnds, b \in SliceEnds}

SliceScenarios ==
  {Run(f, v) : f \in SlicePathOf(Identity) \cup SliceAssignments, v \in {Arr(0), Arr(2)}}
    \cup {Run(f, ObjBA) : f \in SlicePathOf(Dot("a"))}

\* [a <= b, b <= a] for operands of every type, on the input -1; sqrt of
\* it is NaN
Operands ==
  {Identity, Ref("sqrt"), Num(1), Str("a"), Literal(VNull), Literal(VBool(TRUE)),
   Literal(Arr(1)), Literal(ObjA)}

EitherWay(a, b) == Array(<<Binary("Lte", a, b), Binary("Lte", b, a)>>)

IsEitherWay(f) ==
  /\ f.kind = "Array"
  /\ Len(f.items) = 2
  /\ f.items[1].kind = "Binary"
  /\ f.items[1].op = "Lte"

ComparisonPrograms == {EitherWay(a, b) : a \in Operands, b \in Operands}

ComparisonScenarios == {Run(f, VNum(-1)) : f \in ComparisonPrograms}

Init ==
  InitWith(CoreScenarios \cup QuestionScenarios \cup ForbiddenScenarios
             \cup UnknownCallScenarios \cup UnmatchedBreakScenarios
             \cup ObjectScenarios \cup SliceScenarios \cup ComparisonScenarios)

Spec == Init /\ [][Next]_vars

(***************************************************************************)
(* Runs under small resource caps                                          *)
(***************************************************************************)
MaxCap == 4

LimitFilters ==
  { Try(Comma(Identity, Identity), Literal(VStr("c"))),
    Pipe(Each, Try(Comma(Identity, Identity), NoNode)),
    Try(Pipe(Pipe(Identity, Identity), Identity), Identity),
    Pipe(Each, PostfixQuestion(Identity)) }

LimitScenarios ==
  {RunWith(f, Arr(2), Limits(s, d, o), EmptyMap) :
     f \in LimitFilters, s \in 1..MaxCap, d \in 1..MaxCap, o \in 1..MaxCap}

InitLimits == InitWith(CoreScenarios \cup LimitScenarios)

SpecLimits == InitLimits /\ [][Next]_vars

ResourceMessages == {"Step limit exceeded", "Max depth exceeded", "Output limit exceeded"}

\* The faults LimitTracker raises (no program of the model raises these
\* messages through error/1)
IsResourceFault(e) == e.cls = "RuntimeError" /\ e.message \in ResourceMessages

\* C1: a resource-cap fault raised under a try is never caught: every
\* generator that receives one passes it on unchanged to its consumer, so no
\* handler is evaluated for it, no try completes normally on it, and it
\* reaches the caller of the run.
ResourceFaultNeverCaught ==
  [][(phase = "run" /\ cur > 0 /\ msg.t = "err" /\ IsResourceFault(msg.e))
       => (msg' = msg /\ cur' = stack[cur].parent)]_vars

\* C2: with global x = 9, the loops that bind $x leave the outer $x as it
\* was: the three programs of the claim yield 9, 3, 9 and [9,1,3,9], and the
\* nested reduce still reads the outer loop's $x after the inner loop.
LoopBindingRestored ==
  (phase = "done" /\ globalVars = X9 /\ ast \in {ReduceShadow, ForeachShadow, NestedReduce})
    => /\ result.status = "ok"
       /\ ast = ReduceShadow => out = <<VNum(9), VNum(3), VNum(9)>>
       /\ ast = ForeachShadow => out = <<VArr(<<VNum(9), VNum(1), VNum(3), VNum(9)>>)>>
       /\ ast = NestedReduce => out = <<VNum(63)>>

\* C3: whenever a resource fault is raised, the first or a later one, each
\* counter is at most its cap plus one.
CountersWithinCapPlusOne ==
  (phase = "run" /\ msg.t = "err" /\ IsResourceFault(msg.e))
    => /\ steps <= limits.maxSteps + 1
       /\ depth <= limits.maxDepth + 1
       /\ outputs <= limits.maxOutputs + 1

(***************************************************************************)
(* Update assignments whose right-hand side yields nothing                 *)
(***************************************************************************)
MaxLen == 3

NoValue == {Empty, Select(Literal(VBool(FALSE)))}

UpdateInputs == {Arr(n) : n \in 0..MaxLen} \cup {ObjA, ObjBA, ObjAB}

\* Left-hand sides that resolve to one path, with that path
OnePath ==
  {[lhs |-> Dot(k), path |-> <<VStr(k)>>] : k \in {"a", "b"}}
    \cup {[lhs |-> Idx(i), path |-> <<VNum(i)>>] : i \in (0 - MaxLen)..MaxLen}
    \cup {[lhs |-> FieldAccess(Dot("a"), "b"), path |-> <<VStr("a"), VStr("b")>>],
          [lhs |-> IndexAccess(Dot("a"), Num(0)), path |-> <<VStr("a"), VNum(0)>>]}

\* The first segment of the path fits the container
Fits(v, path) ==
  \/ isPlainObject(v) /\ path[1].t = "string"
  \/ isValueArray(v) /\ path[1].t = "number"

DeleteScenarios ==
  UNION {{Run(Assignment("|=", t.lhs, rhs), v) :
            t \in {u \in OnePath : Fits(v, u.path)}, rhs \in NoValue} : v \in UpdateInputs}

Indices == (0 - MaxLen)..(MaxLen - 1)

MultiDeleteScenarios ==
  {Run(Assignment("|=", Comma(Idx(i), Idx(j)), Empty), Arr(n)) :
     i \in Indices, j \in Indices, n \in 1..MaxLen}

InitUpdate == InitWith(CoreScenarios \cup DeleteScenarios \cup MultiDeleteScenarios)

SpecUpdate == InitUpdate /\ [][Next]_vars

\* The sequence s without its k-th element (k from 0)
Without(s, k) == [m \in 1..(Len(s) - 1) |-> IF m <= k THEN s[m] ELSE s[m + 1]]

RECURSIVE RemoveAt(_, _)
\* The structure v with what `path` addresses in it removed
RemoveAt(v, path) ==
  LET seg == Head(path) IN
  IF isPlainObject(v) /\ seg.t = "string" /\ ObjHas(v, seg.v)
  THEN IF Len(path) = 1
       THEN VObj(SelectSeq(v.v, LAMBDA pair : pair[1] # seg.v))
       ELSE VObj([m \in 1..Len(v.v) |->
                    IF v.v[m][1] = seg.v THEN <<seg.v, RemoveAt(v.v[m][2], Tail(path))>>
                    ELSE v.v[m]])
  ELSE IF isValueArray(v) /\ seg.t = "number"
  THEN LET k == IF seg.v < 0 THEN Len(v.v) + seg.v ELSE seg.v IN
       IF k < 0 \/ k >= Len(v.v) THEN v
       ELSE IF Len(path) = 1 THEN VArr(Without(v.v, k))
       ELSE VArr([v.v EXCEPT ![k + 1] = RemoveAt(v.v[k + 1], Tail(path))])
  ELSE v

\* The path of the left-hand side of a program of DeleteScenarios
PathOfLhs(lhs) == (CHOOSE t \in OnePath : t.lhs = lhs).path

IsDeleteRun ==
  /\ ast.kind = "Assignment"
  /\ ast.right \in NoValue
  /\ \E t \in OnePath : t.lhs = ast.left

MultiDeleteRemovesAddressed ==
  (phase = "done" /\ ast.kind = "Assignment" /\ ast.left.kind = "Comma" /\ ast.right = Empty
     /\ isValueArray(input))
    => LET n == Len(input.v)
           norm(node) == NormIdx(n, node.index.value.v)
           addressed == {norm(ast.left.left), norm(ast.left.right)}
       IN /\ result.status = "ok"
          /\ out = <<VArr(SelectSeq(input.v, LAMBDA e : e.v \notin addressed))>>

(***************************************************************************)
(* The postfix ?, the validator, break                                     *)
(***************************************************************************)
\* C6: e? behaves as `try e` with no handler: it emits what e emits before
\* a runtime fault and nothing for the fault, whose message is never a value.
QuestionSuppressesFault ==
  (phase = "done" /\ \E e \in FaultyFilters : ast = QuestionVsTry(e))
    => /\ result.status = "ok"
       /\ out[1] = out[2]

\* C7: validate raises a validate fault for every filter that uses a
\* forbidden name or $ENV, wherever in the filter the use is.
ForbiddenUseRejected ==
  (phase # "validate" /\ ast \in ForbiddenPrograms)
    => /\ phase = "done"
       /\ result.status = "error"
       /\ result.error.cls = "ValidationError"

UnknownFunctionMessages ==
  {"Unknown function: " \o n : n \in {"foo", "f", "g", "empty", "select"}}
    \cup {"Function " \o n \o " does not accept " \o ToString(k) \o " arguments" :
            n \in {"foo", "f", "g", "empty", "select"}, k \in 0..1}

\* C8: every call of a name that is neither in scope nor a builtin of that
\* arity is rejected by validate, so a filter that passed validation never
\* fails during evaluation with an unknown-function fault.
UnknownCallRejected ==
  /\ (phase # "validate" /\ ast \in UnknownCallPrograms)
       => (phase = "done" /\ result.status = "error"
             /\ result.error.cls = "ValidationError")
  /\ (phase = "done" /\ result.status = "error" /\ result.error.cls = "RuntimeError")
       => result.error.message \notin UnknownFunctionMessages

\* C9: a break with no enclosing label of its name ends the run with a
\* fault of category runtime, not with another kind of exception.
UnmatchedBreakIsRuntimeFault ==
  (phase = "done" /\ ast \in UnmatchedBreakPrograms)
    => /\ result.status = "error"
       /\ result.error.cls = "RuntimeError"
       /\ result.error.kind = "runtime"

(***************************************************************************)
(* The path law                                                            *)
(***************************************************************************)
PathAtoms == {Identity, Dot("a"), Dot("b"), Idx(0), Idx(-1), Each}

\* Path-valid filters: the atoms, their pipes and commas, and selections
PathFilters ==
  PathAtoms
    \cup {Pipe(f, g) : f \in PathAtoms, g \in PathAtoms}
    \cup {Comma(f, g) : f \in PathAtoms, g \in PathAtoms}
    \cup {Pipe(f, Select(Identity)) : f \in PathAtoms}
    \cup {IndexAccess(Identity, Comma(Num(0), Num(1)))}

PathInputs == {VNull, Arr(2), ObjBA, ObjAB, VArr(<<ObjBA, VNull>>)}

PathLawScenarios == {Run(PathLaw(f), v) : f \in PathFilters, v \in PathInputs}

InitPathLaw == InitWith(CoreScenarios \cup PathLawScenarios)

SpecPathLaw == InitPathLaw /\ [][Next]_vars

\* C10: for every path-valid filter f and input v, getpath(p) for the paths
\* p of path(f), in emission order, gives the values of f on v.
GetpathOfPathIsFilter ==
  (phase = "done" /\ result.status = "ok" /\ \E f \in PathFilters : ast = PathLaw(f))
    => out[1] = out[2]

(***************************************************************************)
(* The assignment law                                                      *)
(***************************************************************************)
AssignedValues == {VNum(7), VNull, VStr("c"), Arr(1), ObjA}

AssignInputs == UpdateInputs \cup {VNull, VNum(1), VArr(<<ObjA, VNull>>)}

\* .p = X | [.p]
AssignLaw(p, X) == Pipe(Assignment("=", p, Literal(X)), Array(<<p>>))

AssignScenarios ==
  {Run(AssignLaw(t.lhs, X), v) : t \in OnePath, X \in AssignedValues, v \in AssignInputs}

InitAssign == InitWith(CoreScenarios \cup AssignScenarios)

SpecAssign == InitAssign /\ [][Next]_vars

IsAssignLawRun ==
  /\ ast.kind = "Pipe"
  /\ ast.left.kind = "Assignment"
  /\ ast.left.op = "="
  /\ ast.left.right.kind = "Literal"
  /\ \E t \in OnePath : ast = AssignLaw(t.lhs, ast.left.right.value)

\* C11: for every field/index path .p, input v and value X, when `.p = X`
\* does not fault on v, the run of `.p = X | [.p]` ends normally and has
\* emitted [X] and nothing else: .p on the output of the assignment is X.
AssignedValueIsReadBack ==
  (phase = "done" /\ IsAssignLawRun
     /\ updatePath(input, PathOfLhs(ast.left.left), ast.left.right.value).ok)
    => /\ result.status = "ok"
       /\ out = <<VArr(<<ast.left.right.value>>)>>

\* C11 happens: `.[2] = 7` past the end of [0] was read back as 7
AssignedPastTheEnd ==
  /\ phase = "done"
  /\ ast = AssignLaw(Idx(2), VNum(7))
  /\ input = Arr(1)
  /\ out = <<VArr(<<VNum(7)>>)>>

(***************************************************************************)
(* Object construction                                                     *)
(***************************************************************************)
RECURSIVE LiteralsOf(_)
\* The values of a comma of literals, in order
LiteralsOf(node) ==
  IF node.kind = "Comma" THEN LiteralsOf(node.left) \o LiteralsOf(node.right)
  ELSE <<node.value>>

\* The <<key, value>> choices of one entry: for each key, each value
EntryChoices(entry) ==
  LET keys == IF entry.key.kind = "KeyIdentifier" THEN <<entry.key.name>>
              ELSE IF entry.key.kind = "KeyString" THEN <<entry.key.value>>
              ELSE [k \in 1..Len(LiteralsOf(entry.key.expr)) |->
                      LiteralsOf(entry.key.expr)[k].v]
      vals == LiteralsOf(entry.value)
  IN [m \in 1..(Len(keys) * Len(vals)) |->
        <<keys[((m - 1) \div Len(vals)) + 1], vals[((m - 1) % Len(vals)) + 1]>>]

RECURSIVE ProductsFrom(_, _, _, _)
\* The objects of the products of entries k.., on top of what the earlier
\* entries chose: a later choice of a key replaces the earlier value, and
\* nothing an earlier entry chose is lost.
ProductsFrom(entries, k, chosen, m) ==
  IF k > Len(entries) THEN <<chosen>>
  ELSE LET choices == EntryChoices(entries[k]) IN
       IF m > Len(choices) THEN << >>
       ELSE ProductsFrom(entries, k + 1, ObjSet(chosen, choices[m][1], choices[m][2]), 1)
              \o ProductsFrom(entries, k, chosen, m + 1)

\* C12: an object construction emits one object per product of its
\* entries' choices, holding the key and value every entry chose; a later
\* entry's value replaces an earlier one under the same key, and a key of an
\* earlier entry is there in every product where no later entry chose it.
ObjectHoldsEveryEntry ==
  (phase = "done" /\ ast \in ObjectPrograms)
    => LET expected == ProductsFrom(ast.entries, 1, VObj(<< >>), 1)
       IN /\ result.status = "ok"
          /\ Len(out) = Len(expected)
          /\ \A k \in 1..Len(expected) : valueEquals(out[k], expected[k])

(***************************************************************************)
(* label and break                                                         *)
(***************************************************************************)
BreakLeaves == {Num(1), Break("a"), Break("b")}

\* x, y, 2
BreakSeqs == {Comma(x, Comma(y, Num(2))) : x \in BreakLeaves, y \in BreakLeaves}

BreakBodies ==
  BreakSeqs
    \cup {Label(l, s) : l \in {"a", "b"}, s \in BreakSeqs}
    \cup {Try(s, Num(9)) : s \in BreakSeqs}
    \cup {Pipe(Comma(Num(5), Num(6)), Comma(Identity, x)) : x \in BreakLeaves}
    \cup {Array(<<s>>) : s \in BreakSeqs}

\* label $l | (body, 3)
LabelPrograms == {Label(l, Comma(b, Num(3))) : l \in {"a", "b"}, b \in BreakBodies}

LabelScenarios == {Run(f, VNull) : f \in LabelPrograms}

InitLabel == InitWith(CoreScenarios \cup LabelScenarios)

SpecLabel == InitLabel /\ [][Next]_vars

NoBreak == "none"

RECURSIVE Emits(_, _)
RECURSIVE EmitsEach(_, _, _)
\* What a filter of LabelPrograms is to emit on inp and the label of the
\* break that ends it, if any: values before a break are kept, nothing
\* follows it, and the innermost enclosing label of that name absorbs it.
Emits(f, inp) ==
  CASE f.kind = "Literal" -> [vals |-> <<f.value>>, brk |-> NoBreak]
    [] f.kind = "Identity" -> [vals |-> <<inp>>, brk |-> NoBreak]
    [] f.kind = "Break" -> [vals |-> << >>, brk |-> f.label]
    [] f.kind = "Comma" ->
         LET l == Emits(f.left, inp) IN
         IF l.brk # NoBreak THEN l
         ELSE LET r == Emits(f.right, inp) IN [vals |-> l.vals \o r.vals, brk |-> r.brk]
    [] f.kind = "Pipe" ->
         LET l == Emits(f.left, inp)
             r == EmitsEach(f.right, l.vals, 1)
         IN IF r.brk # NoBreak THEN r ELSE [vals |-> r.vals, brk |-> l.brk]
    [] f.kind = "Try" -> Emits(f.body, inp)
    [] f.kind = "Array" ->
         LET b == Emits(f.items[1], inp) IN
         IF b.brk # NoBreak THEN [vals |-> << >>, brk |-> b.brk]
         ELSE [vals |-> <<VArr(b.vals)>>, brk |-> NoBreak]
    [] f.kind = "Label" ->
         LET b == Emits(f.body, inp) IN
         IF b.brk = f.label THEN [vals |-> b.vals, brk |-> NoBreak] ELSE b

EmitsEach(f, inputs, k) ==
  IF k > Len(inputs) THEN [vals |-> << >>, brk |-> NoBreak]
  ELSE LET first == Emits(f, inputs[k]) IN
       IF first.brk # NoBreak THEN first
       ELSE LET rest == EmitsEach(f, inputs, k + 1)
            IN [vals |-> first.vals \o rest.vals, brk |-> rest.brk]

\* C13: when every break of a program is raised under a label of its name,
\* the run ends normally; each label has emitted what its body emitted
\* before the break and nothing after it, a break passes through labels of
\* other names, and what follows the label is still evaluated.
BreakEndsItsLabel ==
  (phase = "done" /\ ast \in LabelPrograms /\ Emits(ast, input).brk = NoBreak)
    => /\ result.status = "ok"
       /\ out = Emits(ast, input).vals

\* C13 happens: in `label $b | ((label $a | (1, break $b, 2)), 3)` the break
\* passed the inner label and ended the outer one after the value 1
BreakPassedInnerLabel ==
  /\ phase = "done"
  /\ ast = Label("b", Comma(Label("a", Comma(Num(1), Comma(Break("b"), Num(2)))), Num(3)))
  /\ result.status = "ok"
  /\ out = <<VNum(1)>>

(***************************************************************************)
(* limit                                                                   *)
(***************************************************************************)
MaxPull == 3

Fail1 == Call("error", <<Str("c")>>)

RECURSIVE ValuesThenFail(_, _)
\* j, j+1, .., k, error("c")
ValuesThenFail(j, k) ==
  IF j > k THEN Fail1 ELSE Comma(Num(j), ValuesThenFail(j + 1, k))

\* limit(n; (1, .., k, error("c")))
LimitOf(n, k) == Call("limit", <<Num(n), ValuesThenFail(1, k)>>)

\* limit(n; .[] | (., error("c"))): the fault follows the first value
LimitOfPipe(n) == Call("limit", <<Num(n), Pipe(Each, Comma(Identity, Fail1))>>)

LimitCallScenarios ==
  {Run(LimitOf(n, k), VNull) : n \in 0..(MaxPull + 1), k \in 0..MaxPull}
    \cup {Run(LimitOfPipe(n), Arr(2)) : n \in 0..MaxPull}
    \cup {Run(Call("limit", <<Comma(Num(1), Num(2)), ValuesThenFail(1, 2)>>), VNull)}

InitGenerators == InitWith(CoreScenarios \cup LimitCallScenarios)

SpecGenerators == InitGenerators /\ [][Next]_vars

\* C14: limit(n; e) with n >= 1 does not resume e after its n-th value:
\* when e raises a fault only after at least n values, the run ends normally
\* with the first n values of e and the fault is never raised.
LimitStopsAtNth ==
  /\ \A n \in 1..MaxPull, k \in 1..MaxPull :
       (phase = "done" /\ ast = LimitOf(n, k) /\ n <= k)
         => (result.status = "ok" /\ out = [m \in 1..n |-> VNum(m)])
  /\ (phase = "done" /\ ast = LimitOfPipe(1))
       => (result.status = "ok" /\ out = <<input.v[1]>>)
  /\ (phase = "run" /\ ast.kind = "Call" /\ ast.name = "limit" /\ msg.t = "err")
       => \A n \in 1..MaxPull, k \in 1..MaxPull : ast = LimitOf(n, k) => n > k

\* C14 happens: limit(1; (1, error("c"))) has ended with the value 1
LimitedBeforeTheFault ==
  /\ phase = "done"
  /\ ast = LimitOf(1, 1)
  /\ result.status = "ok"
  /\ out = <<VNum(1)>>

(***************************************************************************)
(* try / catch                                                             *)
(***************************************************************************)
\* Filters that raise a runtime fault on the input 1, with its message
TryFaults ==
  { [f |-> Fail1, m |-> "c"],
    [f |-> Dot("a"), m |-> "Cannot index number with string"],
    [f |-> Each, m |-> "Cannot iterate over number"],
    [f |-> Var("y"), m |-> "Undefined variable: y"],
    [f |-> Plus(Identity, Str("c")), m |-> "Cannot add number and string"] }

RECURSIVE ValuesThen(_, _, _)
\* j, j+1, .., k, last
ValuesThen(j, k, last) ==
  IF j > k THEN last ELSE Comma(Num(j), ValuesThen(j + 1, k, last))

\* Bodies with the values they emit before their fault, if they raise one
TryBodies ==
  {[body |-> ValuesThen(1, k, Comma(x.f, Num(5))), vals |-> [m \in 1..k |-> VNum(m)],
    faulty |-> TRUE, m |-> x.m] : k \in 0..MaxPull, x \in TryFaults}
    \cup {[body |-> Pipe(Comma(Num(3), Num(4)), Comma(Identity, x.f)), vals |-> <<VNum(3)>>,
           faulty |-> TRUE, m |-> x.m] : x \in TryFaults}
    \cup {[body |-> ValuesThen(1, k, Num(5)), vals |-> [m \in 1..(k + 1) |->
                                                        IF m > k THEN VNum(5) ELSE VNum(m)],
           faulty |-> FALSE, m |-> ""] : k \in 0..MaxPull}

TryHandlers == {NoNode, Identity, Empty, Num(8), Comma(Identity, Num(9)),
                Plus(Identity, Str("c"))}

\* What the handler is to emit when it is given the message m
HandlerEmits(h, m) ==
  CASE h = NoNode -> << >>
    [] h = Identity -> <<VStr(m)>>
    [] h = Empty -> << >>
    [] h = Num(8) -> <<VNum(8)>>
    [] h = Comma(Identity, Num(9)) -> <<VStr(m), VNum(9)>>
    [] h = Plus(Identity, Str("c")) -> <<VStr(m \o "c")>>

TryScenarios == {Run(Try(b.body, h), VNum(1)) : b \in TryBodies, h \in TryHandlers}

InitTry == InitWith(CoreScenarios \cup TryScenarios)

SpecTry == InitTry /\ [][Next]_vars

\* C15: `try body catch handler` emits the values body emitted before its
\* runtime fault, unchanged and in order, then what handler emits on the
\* fault's message, once; nothing of body after the fault; with no handler
\* nothing is emitted for the fault.  A body without a fault passes through.
TryEmitsBodyThenHandler ==
  \A b \in TryBodies, h \in TryHandlers :
    (phase = "done" /\ ast = Try(b.body, h))
      => /\ result.status = "ok"
         /\ out = b.vals \o (IF b.faulty THEN HandlerEmits(h, b.m) ELSE << >>)

\* C15 happens: `try (1, error("c"), 5) catch (., 9)` has emitted 1, "c", 9
CaughtAfterOneValue ==
  /\ phase = "done"
  /\ ast = Try(Comma(Num(1), Comma(Fail1, Num(5))), Comma(Identity, Num(9)))
  /\ out = <<VNum(1), VStr("c"), VNum(9)>>

(***************************************************************************)
(* Function arguments                                                      *)
(***************************************************************************)
\* The programs, each with what it is to emit on the number n when formals
\* are filters evaluated at the reference, in the call site's environment
ArgumentPrograms(n) ==
  { \* def inc(f): f + 1; inc(. + 1)
    [f |-> Def("inc", <<"f">>, Plus(Ref("f"), Num(1)), Call("inc", <<Inc>>)),
     emits |-> <<VNum(n + 2)>>],
    \* def f(g): 5 | g; f(. + 1)
    [f |-> Def("f", <<"g">>, Pipe(Num(5), Ref("g")), Call("f", <<Inc>>)),
     emits |-> <<VNum(6)>>],
    \* def f(g): (1, 2) | g; f(. + 1)
    [f |-> Def("f", <<"g">>, Pipe(Comma(Num(1), Num(2)), Ref("g")), Call("f", <<Inc>>)),
     emits |-> <<VNum(2), VNum(3)>>],
    \* def f(g): [g, g]; f((., 1))
    [f |-> Def("f", <<"g">>, Array(<<Ref("g"), Ref("g")>>),
               Call("f", <<Comma(Identity, Num(1))>>)),
     emits |-> <<VArr(<<VNum(n), VNum(1), VNum(n), VNum(1)>>)>>],
    \* def f(g): 7 as $x | g; . as $x | f($x)
    [f |-> Def("f", <<"g">>, As(Num(7), "x", Ref("g")),
               As(Identity, "x", Call("f", <<Var("x")>>))),
     emits |-> <<VNum(n)>>],
    \* def f(g): def h: 7; g; def h: . + 1; f(h)
    [f |-> Def("f", <<"g">>, Def("h", << >>, Num(7), Ref("g")),
               Def("h", << >>, Inc, Call("f", <<Ref("h")>>))),
     emits |-> <<VNum(n + 1)>>],
    \* def g: . + 1; def f(g): g; f(g)
    [f |-> Def("g", << >>, Inc, Def("f", <<"g">>, Ref("g"), Call("f", <<Ref("g")>>))),
     emits |-> <<VNum(n + 1)>>],
    \* def f(g): reduce (1, 2) as $x (0; . + g); . as $x | f($x)
    [f |-> Def("f", <<"g">>,
               Reduce(Comma(Num(1), Num(2)), "x", Num(0), Plus(Identity, Ref("g"))),
               As(Identity, "x", Call("f", <<Var("x")>>))),
     emits |-> <<VNum(n + n)>>],
    \* def f(g): g; def h(k): 5 | f(k); h(. + 1)
    [f |-> Def("f", <<"g">>, Ref("g"),
               Def("h", <<"k">>, Pipe(Num(5), Call("f", <<Ref("k")>>)),
                   Call("h", <<Inc>>))),
     emits |-> <<VNum(6)>>],
    \* def f(a; b): [b, a]; f(. + 1; .)
    [f |-> Def("f", <<"a", "b">>, Array(<<Ref("b"), Ref("a")>>),
               Call("f", <<Inc, Identity>>)),
     emits |-> <<VArr(<<VNum(n), VNum(n + 1)>>)>>] }

ArgumentInputs == 0..10

ArgumentScenarios ==
  UNION {{Run(p.f, VNum(n)) : p \in ArgumentPrograms(n)} : n \in ArgumentInputs}

InitCalls == InitWith(CoreScenarios \cup ArgumentScenarios)

SpecCalls == InitCalls /\ [][Next]_vars

\* C16: a formal is a filter: each reference to it evaluates the argument
\* on the input current at the reference, with the argument's free
\* variables and functions those of the call site, so every program of
\* ArgumentPrograms emits what it is listed with.
ArgumentsArePassedByFilter ==
  (phase = "done" /\ input.t = "number" /\ input.v \in ArgumentInputs)
    => \A p \in ArgumentPrograms(input.v) :
         ast = p.f => (result.status = "ok" /\ out = p.emits)

\* C16 happens: `def inc(f): f + 1; inc(. + 1)` on 10 has emitted 12
IncOfIncIsTwelve ==
  /\ phase = "done"
  /\ ast = Def("inc", <<"f">>, Plus(Ref("f"), Num(1)), Call("inc", <<Inc>>))
  /\ input = VNum(10)
  /\ out = <<VNum(12)>>

(***************************************************************************)
(* Slices as paths                                                         *)
(***************************************************************************)
\* The value of an end of a slice: null when it is absent
SliceEnd(node) == IF node = NoNode THEN VNull ELSE node.value

\* The slice segment {start, end} of a slice node
SliceSegment(node) ==
  VObj(<< <<"start", SliceEnd(node.start)>>, <<"end", SliceEnd(node.end)>> >>)

\* C17: a slice .[a:b] is a path expression: path(.[a:b]) on an array emits
\* the parent path extended with one slice segment {start, end}, and an
\* assignment to .[a:b] resolves its path; neither raises a runtime fault.
SliceIsAPath ==
  /\ (phase = "done" /\ ast \in SlicePathOf(Identity) \cup SlicePathOf(Dot("a")))
       => /\ result.status = "ok"
          /\ Len(out) = 1
          /\ LET parent == IF ast.args[1].target = Identity THEN << >> ELSE <<VStr("a")>>
             IN valueEquals(out[1], VArr(Append(parent, SliceSegment(ast.args[1]))))
  /\ (phase = "done" /\ ast \in SliceAssignments) => result.status = "ok"

(***************************************************************************)
(* Key order                                                               *)
(***************************************************************************)
MaxKeys == 3

KeyNames == {"a", "b", "c", "x"}

\* The orders keys can be inserted in: sequences without repetition
KeyOrders ==
  UNION {{s \in [1..n -> KeyNames] : \A i, j \in 1..n : i # j => s[i] # s[j]} :
           n \in 0..MaxKeys}

\* The object whose keys were inserted in the order s, each with its own
\* name as value
FlatObject(s) == VObj([i \in 1..Len(s) |-> <<s[i], VStr(s[i])>>])

\* The same with an object as the value of the first key inserted
NestedObject(s, t) ==
  VObj([i \in 1..Len(s) |-> <<s[i], IF i = 1 THEN FlatObject(t) ELSE VStr(s[i])>>])

KeyOrderInputs ==
  {FlatObject(s) : s \in KeyOrders}
    \cup {NestedObject(s, t) : s \in {<<"b", "a">>, <<"c", "b">>, <<"a", "c">>},
                               t \in {<<"c", "a">>, <<"a", "b">>, <<"x", "c", "b">>}}

KeyOrderPrograms == {Ref("keys"), Ref("to_entries"), Array(<<Each>>), Array(<<Recurse>>)}

KeyOrderScenarios == {Run(f, o) : f \in KeyOrderPrograms, o \in KeyOrderInputs}

InitKeys == InitWith(CoreScenarios \cup KeyOrderScenarios)

SpecKeys == InitKeys /\ [][Next]_vars

\* The keys of o in lexicographic order
LexKeys(o) ==
  CHOOSE ks \in [1..Len(o.v) -> {o.v[i][1] : i \in 1..Len(o.v)}] :
    \A i, j \in 1..Len(o.v) : i < j => StrLess(ks[i], ks[j])

RECURSIVE Descent(_)
RECURSIVE DescentOf(_, _, _)
\* v and everything below it, the members of an object in lexicographic
\* order of their keys
Descent(v) ==
  IF isPlainObject(v) THEN <<v>> \o DescentOf(v, LexKeys(v), 1)
  ELSE <<v>>

DescentOf(o, ks, k) ==
  IF k > Len(ks) THEN << >>
  ELSE Descent(ObjGet(o, ks[k])) \o DescentOf(o, ks, k + 1)

\* C18: keys, to_entries, .[] and .. visit the keys of an object in
\* lexicographic order, whatever order they were inserted in.
KeysVisitedInOrder ==
  (phase = "done" /\ ast \in KeyOrderPrograms /\ input \in KeyOrderInputs)
    => LET ks == LexKeys(input)
           n == Len(ks)
       IN /\ result.status = "ok"
          /\ ast = Ref("keys") => out = <<VArr([k \in 1..n |-> VStr(ks[k])])>>
          /\ ast = Ref("to_entries")
               => out = <<VArr([k \in 1..n |->
                                  VObj(<< <<"key", VStr(ks[k])>>,
                                          <<"value", ObjGet(input, ks[k])>> >>)])>>
          /\ ast = Array(<<Each>>) => out = <<VArr([k \in 1..n |-> ObjGet(input, ks[k])])>>
          /\ ast = Array(<<Recurse>>) => out = <<VArr(Descent(input))>>

\* C18 happens: `..` on {"c": {"x":.., "c":.., "b":..}, "b": ..} has
\* visited b before c, and below c: b, c, x
DescendedInKeyOrder ==
  /\ phase = "done"
  /\ ast = Array(<<Recurse>>)
  /\ input = NestedObject(<<"c", "b">>, <<"x", "c", "b">>)
  /\ out = <<VArr(<<input, VStr("b"), FlatObject(<<"x", "c", "b">>),
                    VStr("b"), VStr("c"), VStr("x")>>)>>

(***************************************************************************)
(* Successive calls of run()                                               *)
(***************************************************************************)
\* C20: when run() is called a second time with the same filter, input,
\* limits and globals, the second call ends as the first did: with the same
\* values in the same order, or with the same fault.
SecondRunRepeatsTheFirst ==
  (phase = "done" /\ runs # << >>) => Outcome = runs[1]

\* A second call that ended well although the two calls together took more
\* steps than one call is allowed.
SecondRunWithinItsOwnCap ==
  /\ phase = "done"
  /\ runs # << >>
  /\ result.status = "ok"
  /\ out # << >>
  /\ 2 * steps > limits.maxSteps

(***************************************************************************)
(* Values as JavaScript holds them.  An array or an object is a node of    *)
(* `store` and is known by its address; null, booleans, numbers and        *)
(* strings are held directly.  A slot is what a variable, an array         *)
(* position or an object property holds: a scalar or a reference.  Two     *)
(* slots with the same address are the same array or object, and a write   *)
(* to the node is seen through both.                                       *)
(***************************************************************************)
Addr(a) == [t |-> "ref", v |-> a]

\* Array.isArray / isPlainObject of what a slot holds
HoldsArray(st, slot) == slot.t = "ref" /\ st[slot.v].t = "array"

HoldsObject(st, slot) == slot.t = "ref" /\ st[slot.v].t = "object"

\* describeType of what a slot holds
TypeIn(st, slot) == IF slot.t = "ref" THEN st[slot.v].t ELSE slot.t

\* `[]`, `{}` and array results: a new node
Fresh(st, node) == [store |-> Append(st, node), a |-> Len(st) + 1]

\* A "copy" that is the array or object itself
Alias(st, a) == [store |-> st, a |-> a]

\* `{ ...root }` and `[...root]`: a new node with the slots of the old one
Spread(st, a) == Fresh(st, st[a])

\* The value a slot stands for
RECURSIVE Deref(_, _)
Deref(st, slot) ==
  IF slot.t # "ref" THEN slot
  ELSE LET node == st[slot.v]
       IN IF node.t = "array"
          THEN VArr([i \in 1..Len(node.v) |-> Deref(st, node.v[i])])
          ELSE VObj([i \in 1..Len(node.v) |-> <<node.v[i][1], Deref(st, node.v[i][2])>>])

\* A value put into the store, children first: the caller's input as the
\* JSON parser built it.
RECURSIVE Alloc(_, _)
RECURSIVE AllocAll(_, _, _)
AllocAll(st, items, slots) ==
  IF items = << >> THEN [store |-> st, slots |-> slots]
  ELSE LET r == Alloc(st, Head(items))
       IN AllocAll(r.store, Tail(items), Append(slots, r.v))

Alloc(st, value) ==
  IF value.t = "array"
  THEN LET r == AllocAll(st, value.v, << >>)
           n == Fresh(r.store, VArr(r.slots))
       IN [store |-> n.store, v |-> Addr(n.a)]
  ELSE IF value.t = "object"
  THEN LET r == AllocAll(st, [i \in 1..Len(value.v) |-> value.v[i][2]], << >>)
           n == Fresh(r.store,
                      VObj([i \in 1..Len(value.v) |-> <<value.v[i][1], r.slots[i]>>]))
       IN [store |-> n.store, v |-> Addr(n.a)]
  ELSE [store |-> st, v |-> value]

RECURSIVE updatePathIn(_, _, _, _)
\* updatePath on the store.  The result is the store after the call with
\* the slot returned, or with the message of the throw.
updatePathIn(st, root, path, val) ==
  IF path = << >> THEN [ok |-> TRUE, store |-> st, v |-> val]
  ELSE LET head == Head(path)
           tail == Tail(path)
       IN
       IF head.t = "string" THEN
         IF ~(HoldsObject(st, root) \/ root = VNull)
         THEN [ok |-> FALSE, store |-> st,
               msg |-> "Cannot index " \o TypeIn(st, root) \o " with string \""
                         \o head.v \o "\""]
         ELSE LET c == IF HoldsObject(st, root) THEN Spread(st, root.v)
                       ELSE Fresh(st, VObj(<< >>))
                  obj == c.a
                  child == IF ObjHas(c.store[obj], head.v) THEN ObjGet(c.store[obj], head.v)
                           ELSE Undefined
                  newVal == updatePathIn(c.store, OrNull(child), tail, val)
              IN IF ~newVal.ok THEN newVal
                 ELSE [ok |-> TRUE,
                       store |-> [newVal.store EXCEPT ![obj] =
                                    IF newVal.v = Undefined THEN ObjDel(@, head.v)
                                    ELSE ObjSet(@, head.v, newVal.v)],
                       v |-> Addr(obj)]
       ELSE IF head.t = "number" THEN
         IF ~(HoldsArray(st, root) \/ root = VNull)
         THEN [ok |-> FALSE, store |-> st,
               msg |-> "Cannot index " \o TypeIn(st, root) \o " with number "
                         \o ToString(head.v)]
         ELSE LET c == IF HoldsArray(st, root) THEN Spread(st, root.v)
                       ELSE Fresh(st, VArr(<< >>))
                  arr == c.a
                  len == Len(c.store[arr].v)
                  idx == IF head.v < 0 THEN len + head.v ELSE head.v
              IN IF idx < 0
                 THEN [ok |-> FALSE, store |-> c.store, msg |-> "Invalid negative index"]
                 ELSE LET child == IF idx < len THEN c.store[arr].v[idx + 1] ELSE VNull
                          newVal == updatePathIn(c.store, OrNull(child), tail, val)
                      IN IF ~newVal.ok THEN newVal
                         ELSE [ok |-> TRUE,
                               store |-> [newVal.store EXCEPT ![arr] =
                                            VArr(ArrSet(@.v, idx, newVal.v))],
                               v |-> Addr(arr)]
       ELSE [ok |-> FALSE, store |-> st,
             msg |-> "Path segment must be string, integer, or slice object"]

RECURSIVE deletePathsIn(_, _, _)
RECURSIVE deleteKeysIn(_, _, _, _, _)
RECURSIVE deleteItemsIn(_, _, _, _, _)
\* The object branch: `copy` is `result`, the copy of the object `root`.
deleteKeysIn(st, root, copy, keys, paths) ==
  IF keys = << >> THEN [store |-> st, v |-> Addr(copy)]
  ELSE LET key == Head(keys)
           isKey(p) == p # << >> /\ p[1].t = "string" /\ p[1].v = key
           tails == TailsAt(paths, isKey)
           child == IF ObjHas(st[root], key) THEN ObjGet(st[root], key) ELSE Undefined
           r == deletePathsIn(st, child, tails)
           next == IF SomeEmpty(tails) THEN [st EXCEPT ![copy] = ObjDel(@, key)]
                   ELSE [r.store EXCEPT ![copy] = ObjSet(@, key, r.v)]
       IN deleteKeysIn(next, root, copy, Tail(keys), paths)

\* The array branch: finalArr.push(...) for the indices that stay.
deleteItemsIn(st, root, finalArr, paths, i) ==
  IF i >= Len(st[root].v) THEN [store |-> st, v |-> Addr(finalArr)]
  ELSE LET isIdx(p) == /\ p # << >>
                       /\ p[1].t = "number"
                       /\ NormIdx(Len(st[root].v), p[1].v) = i
           tails == TailsAt(paths, isIdx)
           item == st[root].v[i + 1]
           r == deletePathsIn(st, item, tails)
           next == IF tails = << >> THEN [st EXCEPT ![finalArr] = VArr(Append(@.v, item))]
                   ELSE IF SomeEmpty(tails) THEN st
                   ELSE [r.store EXCEPT ![finalArr] = VArr(Append(@.v, r.v))]
       IN deleteItemsIn(next, root, finalArr, paths, i + 1)

\* deletePaths on the store
deletePathsIn(st, root, paths) ==
  IF SomeEmpty(paths) THEN [store |-> st, v |-> VNull]
  ELSE IF HoldsObject(st, root)
    THEN LET c == Spread(st, root.v)
         IN deleteKeysIn(c.store, root.v, c.a, HeadKeys(paths, {}), paths)
  ELSE IF HoldsArray(st, root)
    THEN LET c == Fresh(st, VArr(<< >>))
         IN deleteItemsIn(c.store, root.v, c.a, paths, 0)
  ELSE [store |-> st, v |-> root]

\* sortStable: arr.map(...).sort(...).map(...) is a new array of the same
\* slots, equal items in the order they had.
RECURSIVE InsertStable(_, _, _)
InsertStable(st, sorted, slot) ==
  IF sorted = << >> THEN <<slot>>
  ELSE LET last == sorted[Len(sorted)]
       IN IF compareValues(Deref(st, slot), Deref(st, last)) < 0
          THEN Append(InsertStable(st, SubSeq(sorted, 1, Len(sorted) - 1), slot), last)
          ELSE Append(sorted, slot)

RECURSIVE sortStable(_, _, _)
sortStable(st, slots, sorted) ==
  IF slots = << >> THEN sorted
  ELSE sortStable(st, Tail(slots), InsertStable(st, sorted, Head(slots)))

\* sort/0 on the store
sortIn(st, root) ==
  IF ~HoldsArray(st, root) THEN [ok |-> FALSE, store |-> st, msg |-> "sort expects an array"]
  ELSE LET n == Fresh(st, VArr(sortStable(st, st[root.v].v, << >>)))
       IN [ok |-> TRUE, store |-> n.store, v |-> Addr(n.a)]

(***************************************************************************)
(* A chain of updates on the store: each of setpath, delpaths and sort is  *)
(* applied to the value the previous one returned, as in                   *)
(* `setpath(p; v) | delpaths(ps) | sort`.                                  *)
(***************************************************************************)
MaxUpdates == 2

StoreInputs == {VNull, Arr(2), ObjA, ObjBA, ObjAB, VArr(<<Arr(1), ObjA, VNum(0)>>)}

StorePaths ==
  { <<VStr("a")>>, <<VStr("b")>>, <<VNum(0)>>, <<VNum(-1)>>, <<VNum(2)>>,
    <<VStr("a"), VNum(0)>>, <<VStr("a"), VStr("b")>>, <<VNum(1), VStr("a")>> }

StorePathSets ==
  {<<p>> : p \in StorePaths}
    \cup {<<p, q>> : p \in {<<VStr("a"), VNum(0)>>, <<VNum(0)>>},
                     q \in {<<VStr("a"), VNum(1)>>, <<VStr("b")>>, <<VNum(1), VStr("a")>>}}

InitStore ==
  /\ \E v \in StoreInputs :
       /\ input = v
       /\ store = Alloc(<< >>, v).store
       /\ roots = <<Alloc(<< >>, v).v>>
       /\ seen = <<v>>
  /\ ast = Identity
  /\ limits = DEFAULT_LIMITS
  /\ globalVars = EmptyMap
  /\ phase = "done"
  /\ stack = << >>
  /\ cur = 0
  /\ msg = Start
  /\ heap = << >>
  /\ steps = 0
  /\ depth = 0
  /\ outputs = 0
  /\ out = << >>
  /\ result = [status |-> "ok"]
  /\ runs = << >>
  /\ text = << >>
  /\ pos = 0
  /\ tokens = << >>
  /\ modeStack = << >>

Latest == roots[Len(roots)]

\* The evaluator's own state, which the store functions do not touch
EvaluatorIdle ==
  UNCHANGED <<ast, input, limits, globalVars, phase, stack, cur, msg, heap, steps, depth,
              outputs, out, runs, text, pos, tokens, modeStack>>

\* What a store function returned becomes the next value of the chain; a
\* throw ends the chain.
Returned(r) ==
  /\ store' = r.store
  /\ roots' = Append(roots, r.v)
  /\ seen' = Append(seen, Deref(r.store, r.v))
  /\ result' = result

Thrown(r) ==
  /\ store' = r.store
  /\ result' = [status |-> "error", error |-> RuntimeError(r.msg)]
  /\ UNCHANGED <<roots, seen>>

ChainGoesOn ==
  /\ roots # << >>
  /\ result.status = "ok"
  /\ Len(roots) <= MaxUpdates

\* setpath(path; val) on the latest value; val is a scalar or one of the
\* values of the chain (as `. as $x | ... | setpath(p; $x)` passes it).
StoreUpdate ==
  /\ ChainGoesOn
  /\ \E path \in StorePaths, val \in {VNum(7)} \cup {roots[j] : j \in 1..Len(roots)} :
       LET r == updatePathIn(store, Latest, path, val)
       IN IF r.ok THEN Returned(r) ELSE Thrown(r)
  /\ EvaluatorIdle

\* delpaths(paths) on the latest value
StoreDelete ==
  /\ ChainGoesOn
  /\ \E paths \in StorePathSets : Returned(deletePathsIn(store, Latest, paths))
  /\ EvaluatorIdle

\* sort on the latest value
StoreSort ==
  /\ ChainGoesOn
  /\ LET r == sortIn(store, Latest)
     IN IF r.ok THEN Returned(r) ELSE Thrown(r)
  /\ EvaluatorIdle

NextStore ==
  \/ StoreUpdate
  \/ StoreDelete
  \/ StoreSort

SpecStore == InitStore /\ [][NextStore]_vars

AnyTwoValuesAreComparable ==
  (phase = "done" /\ result.status = "ok" /\ IsEitherWay(ast)) =>
     \E i \in 1..Len(out[1].v) : out[1].v[i] = VBool(TRUE)

(***************************************************************************)
(* Filters that loop, under small caps                                     *)
(***************************************************************************)
\* 1e308 + 1e308, which is Infinity
Infinite == Plus(Literal(Huge(1)), Literal(Huge(1)))

Forever(body) == Def("f", << >>, body, Ref("f"))

LoopFilters ==
  { Forever(Ref("f")),
    Forever(Comma(Identity, Ref("f"))),
    Forever(Try(Ref("f"), Ref("f"))),
    Try(Forever(Comma(Identity, Ref("f"))), Forever(Ref("f"))),
    Call("recurse", <<Identity>>),
    Call("last", <<Call("recurse", <<Identity>>)>>),
    Pipe(Call("range", <<Infinite>>), Empty),
    Pipe(Call("range", <<Num(0), Infinite>>), Empty),
    Pipe(Call("range", <<Infinite, Num(0), Num(-1)>>), Empty),
    Call("last", <<Call("range", <<Infinite, Num(0), Num(-1)>>)>>),
    Try(Call("last", <<Call("range", <<Infinite, Num(0), Num(-1)>>)>>), Ref("sqrt")),
    Call("range", <<Num(0), Num(1), Num(0)>>) }

LoopScenarios ==
  {RunWith(f, VNum(0), Limits(s, d, o), EmptyMap) :
     f \in LoopFilters, s \in 1..(2 * MaxCap), d \in 1..MaxCap, o \in 1..MaxCap}

InitLoops == InitWith(CoreScenarios \cup LoopScenarios)

\* The evaluator is synchronous: while a call of run() has a step to take,
\* it takes it.
SpecLoops == InitLoops /\ [][Next]_vars /\ WF_vars(Next)

V9 == [v |-> VNum(9)]

\* foreach (1, 2) as $v (0; . + $v)
ForeachV == Foreach(Comma(Num(1), Num(2)), "v", Num(0), Plus(Identity, Var("v")), NoNode)

\* reduce (1, 2) as $v (0; . + $v)
ReduceV == Reduce(Comma(Num(1), Num(2)), "v", Num(0), Plus(Identity, Var("v")))

ScopePrograms ==
  { Pipe(ForeachV, Var("v")),
    Pipe(ReduceV, Var("v")),
    Comma(ForeachV, Var("v")),
    Comma(Call("limit", <<Num(1), ForeachV>>), Var("v")),
    Try(Reduce(Comma(Num(1), Num(2)), "v", Num(0), Call("error", <<Literal(VStr("c"))>>)),
        Var("v")),
    Comma(As(Num(1), "v", Var("v")), Var("v")),
    As(Num(1), "v", Pipe(ForeachV, Var("v"))),
    Comma(Def("f", << >>, Var("v"), Ref("f")), Var("v")) }

ScopeScenarios ==
  {RunWith(f, VNull, DEFAULT_LIMITS, g) : f \in ScopePrograms, g \in {EmptyMap, V9}}

InitScopes == InitWith(CoreScenarios \cup ScopeScenarios)

SpecScopes == InitScopes /\ [][Next]_vars

\* C23: once an environment frame has been pushed its contents never change:
\* during a run the frames only grow in number, and every frame there is
\* stays what it was at its push.
PushedFramesNeverChange ==
  [][(phase = "run" /\ phase' = "run")
       => /\ Len(heap') >= Len(heap)
          /\ \A a \in 1..Len(heap) : heap'[a] = heap[a]]_vars

\* C24: whenever no reduce or foreach is inside its loop body - before it,
\* after its normal end, after a fault in its body, after its consumer has
\* abandoned it - the global scope resolves every variable as it did when the
\* run began.
EnclosingScopeResolvesAsBefore ==
  (phase \in {"run", "done"} /\ heap # << >> /\ \A k \in 1..Len(stack) : ~stack[k].bound)
    => heap[1].vars = globalVars

RECURSIVE UnderLoop(_)
\* The frame k is evaluated by the update or extract of a loop, directly or
\* through the generators between them.
UnderLoop(k) ==
  /\ k > 0
  /\ \/ stack[k].node.kind \in {"Reduce", "Foreach"} /\ stack[k].bound
     \/ UnderLoop(stack[k].parent)

GlobalValue(name) == IF name \in DOMAIN globalVars THEN globalVars[name] ELSE Undefined

\* C25: a $v that is looked up in the global scope by a filter outside the
\* update and extract of every loop, while a foreach is suspended between
\* two of its emissions, resolves to the outer $v, and to nothing when there
\* is no outer $v.
LoopVariableHiddenFromConsumers ==
  (/\ phase = "run" /\ cur > 0 /\ msg.t = "go"
   /\ stack[cur].gen = "evaluate" /\ stack[cur].node.kind = "Var"
   /\ stack[cur].env = <<1>>
   /\ ~UnderLoop(stack[cur].parent)
   /\ \E k \in 1..Len(stack) : stack[k].node.kind = "Foreach" /\ stack[k].bound)
    => getVar(heap, stack[cur].env, stack[cur].node.name) = GlobalValue(stack[cur].node.name)

(***************************************************************************)
(* The output counter                                                      *)
(***************************************************************************)
OutputFilters ==
  { Comma(Array(<< >>), Array(<< >>)),
    Comma(Object(<< >>), Comma(Object(<< >>), Object(<< >>))),
    Comma(Num(1), Comma(Num(2), Num(3))),
    Pipe(Each, Array(<<Identity>>)),
    Comma(Assignment("|=", Idx(0), Num(1)), Array(<< >>)) }

OutputScenarios ==
  {RunWith(f, Arr(2), Limits(DefaultMaxSteps, DefaultMaxDepth, o), EmptyMap) :
     f \in OutputFilters, o \in 1..MaxCap}

InitOutputs == InitWith(CoreScenarios \cup OutputScenarios)

SpecOutputs == InitOutputs /\ [][Next]_vars

\* C26: every value that a node makes and yields is counted: when an
\* evaluation, an object construction or an update yields a value that it
\* did not just receive from the generator it consumes, `outputs` goes up by
\* one in that step.
EveryEmissionIsCounted ==
  [][(/\ phase = "run" /\ cur > 0 /\ msg.t # "val"
      /\ stack[cur].gen \in {"evaluate", "fillObject", "applyUpdates"}
      /\ stack[cur].node.kind # "Call"
      /\ msg'.t = "val" /\ cur' = stack[cur].parent)
       => outputs' = outputs + 1]_vars

\* C27: a run that ends without a fault returns at most maxOutputs values.
ReturnsAtMostTheCap ==
  (phase = "done" /\ result.status = "ok") => Len(out) <= limits.maxOutputs

(***************************************************************************)
(* The depth counter                                                       *)
(***************************************************************************)
\* The evaluations that have been entered and not yet exited
OpenEvaluations == {k \in 1..Len(stack) : stack[k].entered}

\* C28: during a run `depth` is the number of node evaluations that have
\* been entered and not yet exited, and it is 0 when the run has ended.
DepthCountsOpenEvaluations ==
  /\ phase = "run" => depth = Cardinality(OpenEvaluations)
  /\ phase = "done" => depth = 0

(***************************************************************************)
(* The lexer (lexer.ts): lex(text), one action per turn of its loop        *)
(***************************************************************************)
MaxText == 6

\* The characters of the texts: quote, backslash, parentheses and a digit
Chars == {"\"", "\\", "(", ")", "1"}

Texts == UNION {[1..n -> Chars] : n \in 0..MaxText}

NoChar == "undefined"

\* text[p], undefined outside the text
CharAt(txt, p) == IF p >= 0 /\ p < Len(txt) THEN txt[p + 1] ELSE NoChar

LexError(message) == [cls |-> "LexError", kind |-> "lex", message |-> message]

Token(kind, start, end, value) == [kind |-> kind, start |-> start, end |-> end, value |-> value]

isDigit(ch) == ch = "1"

isHexDigit(ch) == ch = "1"

StringEnds(p) == [ok |-> TRUE, end |-> p]
StringFails(message) == [ok |-> FALSE, message |-> message]

RECURSIVE ScanString(_, _)
\* The loop of readString from position p: the position after the closing
\* quote or after the `\(` that opens an embedded expression.
ScanString(txt, p) ==
  IF p >= Len(txt) THEN StringFails("Unterminated string literal")
  ELSE LET current == CharAt(txt, p) IN
       IF current = "\"" THEN StringEnds(p + 1)
       ELSE IF current = "\\"
       THEN IF CharAt(txt, p + 1) = "(" THEN StringEnds(p + 2)
            ELSE LET esc == CharAt(txt, p + 1) IN
                 IF esc = NoChar THEN StringFails("Unterminated string literal")
                 ELSE IF esc \in {"\"", "\\", "/", "b", "f", "n", "r", "t"}
                 THEN ScanString(txt, p + 2)
                 ELSE IF esc = "u"
                 THEN IF \A k \in 0..3 : isHexDigit(CharAt(txt, p + 2 + k))
                      THEN ScanString(txt, p + 6)
                      ELSE StringFails("Invalid Unicode escape")
                 ELSE StringFails("Invalid escape sequence")
       ELSE ScanString(txt, p + 1)

\* readString(tokenStart, openQuote), called with the lexer at position p
readString(txt, p, openQuote) == ScanString(txt, IF openQuote THEN p + 1 ELSE p)

RECURSIVE readStringValue(_, _, _)
\* The decoded text of text[i .. innerEnd - 1]
readStringValue(txt, i, innerEnd) ==
  IF i >= innerEnd THEN ""
  ELSE IF CharAt(txt, i) = "\\"
  THEN (IF CharAt(txt, i + 1) = "\"" THEN "\"" ELSE "\\")
         \o readStringValue(txt, i + 2, innerEnd)
  ELSE CharAt(txt, i) \o readStringValue(txt, i + 1, innerEnd)

RECURSIVE readNumber(_, _)
\* The end of the digits that start at p (the texts have no `.` and no `e`)
readNumber(txt, p) == IF isDigit(CharAt(txt, p)) THEN readNumber(txt, p + 1) ELSE p

RECURSIVE NumberOf(_, _, _)
\* Number(raw) for the digits text[p .. end - 1]
NumberOf(txt, p, end) ==
  IF p >= end THEN 0 ELSE NumberOf(txt, p, end - 1) * 10 + 1

InitLex ==
  /\ text \in Texts
  /\ pos = 0
  /\ tokens = << >>
  /\ modeStack = <<0>>
  /\ phase = "lex"
  /\ result = [status |-> "pending"]
  /\ ast = Identity
  /\ input = VNull
  /\ limits = DEFAULT_LIMITS
  /\ globalVars = EmptyMap
  /\ stack = << >>
  /\ cur = 0
  /\ msg = Start
  /\ heap = << >>
  /\ steps = 0
  /\ depth = 0
  /\ outputs = 0
  /\ out = << >>
  /\ runs = << >>
  /\ store = << >>
  /\ roots = << >>
  /\ seen = << >>

\* What lex() leaves alone
LexerOnly ==
  UNCHANGED <<ast, input, limits, globalVars, stack, cur, msg, heap, steps, depth, outputs,
              out, runs, store, roots, seen, text>>

Lexing(ch) == phase = "lex" /\ pos < Len(text) /\ CharAt(text, pos) = ch

pushToken(kind, start, end, value) ==
  /\ tokens' = Append(tokens, Token(kind, start, end, value))
  /\ pos' = end
  /\ UNCHANGED <<phase, result>>

LexThrow(message) ==
  /\ phase' = "lexed"
  /\ result' = [status |-> "error", error |-> LexError(message)]
  /\ UNCHANGED <<tokens, pos, modeStack>>

\* if (ch === ')') { if (modeStack.length > 1) { ... continue } }
LexInterpolationEnd ==
  /\ Lexing(")")
  /\ Len(modeStack) > 1
  /\ LexerOnly
  /\ LET start == pos
         r == readString(text, pos + 1, FALSE)
     IN IF ~r.ok THEN LexThrow(r.message)
        ELSE LET endPos == r.end
                 quoted == CharAt(text, endPos - 1) = "\""
                 value == readStringValue(text, start + 1,
                                          endPos - (IF quoted THEN 1 ELSE 2))
             IN IF quoted
                THEN /\ modeStack' = SubSeq(modeStack, 1, Len(modeStack) - 1)
                     /\ pushToken("StringEnd", start, endPos, VStr(value))
                ELSE /\ modeStack' = modeStack
                     /\ pushToken("StringMiddle", start, endPos, VStr(value))

\* case '"'
LexString ==
  /\ Lexing("\"")
  /\ LexerOnly
  /\ LET start == pos
         r == readString(text, pos, TRUE)
     IN IF ~r.ok THEN LexThrow(r.message)
        ELSE LET endPos == r.end
                 isInterp == CharAt(text, endPos - 2) = "\\" /\ CharAt(text, endPos - 1) = "("
                 value == readStringValue(text, start + 1,
                                          endPos - (IF isInterp THEN 2 ELSE 1))
             IN IF isInterp
                THEN /\ modeStack' = Append(modeStack, 1)
                     /\ pushToken("StringStart", start, endPos, VStr(value))
                ELSE /\ modeStack' = modeStack
                     /\ pushToken("String", start, endPos, VStr(value))

\* case '('
LexLParen ==
  /\ Lexing("(")
  /\ LexerOnly
  /\ modeStack' = modeStack
  /\ pushToken("LParen", pos, pos + 1, Undefined)

\* case ')', outside every interpolation
LexRParen ==
  /\ Lexing(")")
  /\ Len(modeStack) <= 1
  /\ LexerOnly
  /\ modeStack' = modeStack
  /\ pushToken("RParen", pos, pos + 1, Undefined)

\* if (isDigit(ch))
LexNumber ==
  /\ phase = "lex" /\ pos < Len(text) /\ isDigit(CharAt(text, pos))
  /\ LexerOnly
  /\ modeStack' = modeStack
  /\ LET end == readNumber(text, pos)
     IN pushToken("Number", pos, end, VNum(NumberOf(text, pos, end)))

\* throw new LexError(`Unexpected character "${ch}"`)
LexUnexpected ==
  /\ Lexing("\\")
  /\ LexerOnly
  /\ LexThrow("Unexpected character")

\* pushToken('EOF', pos, pos); return tokens
LexEOF ==
  /\ phase = "lex" /\ pos >= Len(text)
  /\ LexerOnly
  /\ tokens' = Append(tokens, Token("EOF", pos, pos, Undefined))
  /\ phase' = "lexed"
  /\ result' = [status |-> "ok"]
  /\ UNCHANGED <<pos, modeStack>>

NextLex ==
  \/ LexInterpolationEnd
  \/ LexString
  \/ LexLParen
  \/ LexRParen
  \/ LexNumber
  \/ LexUnexpected
  \/ LexEOF

SpecLexer == InitLex /\ [][NextLex]_vars

RECURSIVE ParensNest(_, _, _)
\* Walks the tokens from the k-th with the open parentheses of each embedded
\* expression that is open (the innermost last): a StringMiddle or StringEnd
\* must come when its embed has no parenthesis open.
ParensNest(toks, k, open) ==
  IF k > Len(toks) THEN TRUE
  ELSE LET kind == toks[k].kind
           top == Len(open)
       IN CASE kind = "StringStart" -> ParensNest(toks, k + 1, Append(open, 0))
            [] kind = "LParen" /\ top > 0 ->
                 ParensNest(toks, k + 1, [open EXCEPT ![top] = @ + 1])
            [] kind = "RParen" /\ top > 0 ->
                 ParensNest(toks, k + 1, [open EXCEPT ![top] = @ - 1])
            [] kind = "StringMiddle" ->
                 top > 0 /\ open[top] = 0 /\ ParensNest(toks, k + 1, open)
            [] kind = "StringEnd" ->
                 top > 0 /\ open[top] = 0
                   /\ ParensNest(toks, k + 1, SubSeq(open, 1, top - 1))
            [] OTHER -> ParensNest(toks, k + 1, open)

\* C29: in the tokens of a text that lex() accepts, the embedded expression
\* of a string ends at the `)` that matches its `\(`: no StringMiddle or
\* StringEnd comes while a `(` of the embedded expression is open.
EmbedEndsAtItsMatchingParen ==
  (phase = "lexed" /\ result.status = "ok") => ParensNest(tokens, 1, << >>)

(***************************************************************************)
(* Key insertion order: one filter on two objects that differ in nothing   *)
(* but the order in which their keys were inserted                         *)
(***************************************************************************)
OrderFilters ==
  { Ref("keys"), Ref("keys_unsorted"), Call("path", <<Each>>), Array(<<Each>>),
    Assignment("=", Each, Num(1)), Assignment("|=", Each, Array(<<Identity>>)) }

\* [o, o'] where o has its keys in the order s and o' has them sorted
OrderPairs == {VArr(<<FlatObject(s), FlatObject(SortStrings(s))>>) : s \in KeyOrders}

\* .[] | f on the two objects: the outputs for the first, then for the second
OrderScenarios == {Run(Pipe(Each, f), v) : f \in OrderFilters, v \in OrderPairs}

InitOrder == InitWith(CoreScenarios \cup OrderScenarios)

SpecOrder == InitOrder /\ [][Next]_vars

\* The run applied a filter to each of two structurally equal objects
OnEqualObjects ==
  /\ ast.kind = "Pipe" /\ ast.left = Each
  /\ isValueArray(input) /\ Len(input.v) = 2
  /\ isPlainObject(input.v[1]) /\ isPlainObject(input.v[2])
  /\ valueEquals(input.v[1], input.v[2])

\* C30: a filter gives the same outputs, in the same order, for two inputs
\* that are structurally equal and differ in the insertion order of their
\* keys: the outputs for the second object repeat those for the first.
KeyOrderDoesNotShow ==
  (phase = "done" /\ OnEqualObjects)
    => /\ result.status = "ok"
       /\ \E n \in 0..Len(out) :
            /\ Len(out) = 2 * n
            /\ \A i \in 1..n : valueEquals(out[i], out[n + i])

====
